---- MODULE Spec2Model ----
(***************************************************************************)
(* Hat-family tile placement (src/src/hat_family.py), the hat tiling of    *)
(* src/src/hat.py, traced in the frame of its first tile, and the progress *)
(* display of src/src/show_progress.py.                                    *)
(*                                                                         *)
(* Numbers.  A coordinate is an integer count of 1e-6 units, which is what *)
(* round(x, 6) leaves in a vertex.  A length is a pair <<a, b>> standing   *)
(* for a + b*sqrt(3) length units; `scaling` is the number of 1e-6 steps   *)
(* in one length unit (1000000 for scaling = 1).                           *)
(*                                                                         *)
(* An angle is a record [dir, turn]: the direction of the vector dir       *)
(* turned by turn * 30 degrees.  All headings of a tiling whose first      *)
(* angle is a multiple of 30 degrees are multiples of 30 degrees, so cos   *)
(* and sin take the values 0, 1/2, sqrt(3)/2, 1 up to sign and a           *)
(* displacement is scaling * (M + N*sqrt(3)) / 2, which Round6 rounds to   *)
(* the grid.  math.atan of the slope between two traced vertices is taken  *)
(* on the 30-degree lattice (LatticeDir): this leaves out the error of     *)
(* about 1e-6 / length radians that the rounding of the vertices puts into *)
(* the floating-point angle, which moves a vertex of a matched tile by at  *)
(* most one or two 1e-6 steps.                                             *)
(*                                                                         *)
(* change_coordinates leaves the grid: after it a stored coordinate c      *)
(* stands for c / unit steps, unit being the squared length of the segment *)
(* the rotation and the scaling are taken from.                            *)
(***************************************************************************)
EXTENDS Integers, Sequences, FiniteSets, TLC

VARIABLES
    tile_param1,      \* AllTiles.tile_param1, a length <<a, b>>
    tile_param2,      \* AllTiles.tile_param2
    first_tile_angle, \* AllTiles.first_tile_angle, in steps of 30 degrees
    scaling,          \* AllTiles.scaling, in 1e-6 steps per length unit
    tiles,            \* AllTiles.tiles: tile_id -> tile
    unit,             \* a stored coordinate c stands for c / unit 1e-6 steps
    order,            \* insertion order of the keys of AllTiles.tiles
    pc,               \* where add_all_tiles / the calling script stands
    err,              \* the exception that ended the run, or "none"
    tr,               \* the last call: its inputs and results
    left_x,           \* AllTiles.left_x: None (<<>>) or <<value>>, in 1e-6 steps
    bottom_y,         \* AllTiles.bottom_y
    right_x,          \* AllTiles.right_x
    top_y,            \* AllTiles.top_y
    file,             \* the lines written by write_points_to_file
    dw,               \* show_progress.py: the TileDrawingArea of the window
    screen,           \* show_progress.py: what on_draw has drawn, and queue_draw
    tables            \* the module's lists MOVES and EDGES, shared by all tiles

vars == <<tile_param1, tile_param2, first_tile_angle, scaling, tiles, unit,
          order, pc, err, tr, left_x, bottom_y, right_x, top_y, file, dw, screen,
          tables>>

-----------------------------------------------------------------------------
(* Bounds of the model *)

\* rows of the configuration file that add_all_tiles reads
MaxRows == 2

-----------------------------------------------------------------------------
(* Small helpers *)

Abs(x) == IF x < 0 THEN -x ELSE x

Max2(a, b) == IF a > b THEN a ELSE b

Min2(a, b) == IF a < b THEN a ELSE b

\* Python's seq[i:] and seq[:j], negative indexes counted from the end
PyIndex(i, n) == IF i < 0 THEN Max2(n + i, 0) ELSE Min2(i, n)

PySliceFrom(seq, i) == SubSeq(seq, PyIndex(i, Len(seq)) + 1, Len(seq))

PySliceTo(seq, j) == SubSeq(seq, 1, PyIndex(j, Len(seq)))

-----------------------------------------------------------------------------
(* Module-level tables *)

_FIRST_TILE_W == 0

_FIRST_TILE_H == 0

OTHER_DIR == [x \in {"L", "R", "D"} |->
                 IF x = "L" THEN "R" ELSE IF x = "R" THEN "L" ELSE "D"]

Move(t, a, dd) == [turn |-> t, angle |-> a, d |-> dd]

\* LEFT_HAT_MOVES with the fourth turn to the left instead of the right
LEFT_HAT_MOVES_turn == <<
    Move("L", 60, "HS"), Move("L", 90, "HS"), Move("L", 60, "HH"),
    Move("L", 90, "HH"), Move("L", 60, "HS"), Move("L", 60, "FS"),
    Move("L", 90, "HS"), Move("R", 60, "HH"), Move("L", 90, "HH"),
    Move("R", 60, "HS"), Move("L", 90, "HS"), Move("L", 60, "HH"),
    Move("R", 90, "HH") >>

LEFT_HAT_MOVES == <<
    Move("L", 60, "HS"), Move("L", 90, "HS"), Move("L", 60, "HH"),
    Move("R", 90, "HH"), Move("L", 60, "HS"), Move("L", 60, "FS"),
    Move("L", 90, "HS"), Move("R", 60, "HH"), Move("L", 90, "HH"),
    Move("R", 60, "HS"), Move("L", 90, "HS"), Move("L", 60, "HH"),
    Move("R", 90, "HH") >>

\* RIGHT_HAT_MOVES without the change of the turn direction
RIGHT_HAT_MOVES_same == [i \in 1..Len(LEFT_HAT_MOVES) |->
    Move(LEFT_HAT_MOVES[i].turn, LEFT_HAT_MOVES[i].angle, LEFT_HAT_MOVES[i].d)]

RIGHT_HAT_MOVES == [i \in 1..Len(LEFT_HAT_MOVES) |->
    Move(OTHER_DIR[LEFT_HAT_MOVES[i].turn], LEFT_HAT_MOVES[i].angle,
         LEFT_HAT_MOVES[i].d)]

\* an edge name is <<first letter, rest>>: 'LP' is <<"L", "P">>
LEFT_EDGES == << <<"L","P">>, <<"L","H">>, <<"L","S">>, <<"L","N">>,
                 <<"R","N">>, <<"R","S">>, <<"R","H">>, <<"R","P">>,
                 <<"R","T">>, <<"R","W">>, <<"D","W">>, <<"L","W">>,
                 <<"L","T">> >>

RIGHT_EDGES == [i \in 1..Len(LEFT_EDGES) |->
    <<OTHER_DIR[LEFT_EDGES[i][1]], LEFT_EDGES[i][2]>>]

MOVES == [L |-> LEFT_HAT_MOVES, R |-> RIGHT_HAT_MOVES]

EDGES == [L |-> LEFT_EDGES, R |-> RIGHT_EDGES]

EdgeNames == {LEFT_EDGES[i] : i \in 1..Len(LEFT_EDGES)}

\* list.index(name), 0-based
index(list, name) == (CHOOSE i \in 1..Len(list) : list[i] = name) - 1

\* list[k] with Python's 0-based k
At(list, k) == list[k + 1]

-----------------------------------------------------------------------------
(* Arithmetic of math.cos, math.sin and round(., 6) on the 30-degree lattice *)

\* sqrt(3)/2 = 0.866025 4037844...: the first six decimals and the next seven
SQRT3_HALF_HI == 866025

SQRT3_HALF_LO == 4037844

\* 2*cos(k * 30 degrees) as <<m, n>> = m + n*sqrt(3)
COS2_TABLE == << <<2,0>>, <<0,1>>, <<1,0>>, <<0,0>>, <<-1,0>>, <<0,-1>>,
                 <<-2,0>>, <<0,-1>>, <<-1,0>>, <<0,0>>, <<1,0>>, <<0,1>> >>

Cos2(k) == COS2_TABLE[(k % 12) + 1]

Sin2(k) == Cos2(k - 3)

\* SCALING of hat.py, 0.041, in 1e-6 steps per length unit
HAT_SCALING == 41000

\* round(n * sc * sqrt(3)/2) for a scaling sc below 100000 and small n, with
\* sqrt(3)/2 = 0.866 025 403 784 taken three decimals at a time
RoundSqrt3HalfSmall(n, sc) ==
    LET a  == Abs(n) * sc
        t4 == (a * (SQRT3_HALF_LO % 10000)) \div 10
        t3 == a * (SQRT3_HALF_LO \div 10000) + t4 \div 1000
        t2 == a * (SQRT3_HALF_HI % 1000) + t3 \div 1000
        t1 == a * (SQRT3_HALF_HI \div 1000) + t2 \div 1000
        r  == (t1 + 500) \div 1000
    IN IF n < 0 THEN -r ELSE r

\* round(n * sc * sqrt(3)/2) for sc = 100 or 1000000 and small n
RoundSqrt3Half(n, sc) ==
    IF sc = HAT_SCALING \div 2 THEN RoundSqrt3HalfSmall(n, sc) ELSE
    LET p  == 1000000 \div sc
        ip == SQRT3_HALF_HI \div p
        fp == (SQRT3_HALF_HI % p) * (10000000 \div p) + SQRT3_HALF_LO \div p
        a  == Abs(n)
        r  == a * ip + (a * fp + 5000000) \div 10000000
    IN IF n < 0 THEN -r ELSE r

\* round(sc * (m + n*sqrt(3)) / 2): the 6-decimal rounding of a displacement
Round6(m, n, sc) == (sc \div 2) * m + RoundSqrt3Half(n, sc)

\* (a + b*sqrt(3)) * (m + n*sqrt(3)) as <<rational part, sqrt(3) part>>
RingMul(x, y) == <<x[1] * y[1] + 3 * x[2] * y[2], x[1] * y[2] + x[2] * y[1]>>

-----------------------------------------------------------------------------
(* Angles *)

\* what a function that raised an exception gives back
Raise(e) == [raised |-> e]

Angle(v, t) == [raised |-> "none", dir |-> v, turn |-> t]

\* the multiple of 30 degrees nearest to the direction of a vector
LatticeDir(v) ==
    LET ax == Abs(v[1])
        ay == Abs(v[2])
        q  == IF ay = 0 \/ 4 * ay < ax THEN 0
              ELSE IF ay < ax THEN 1
              ELSE IF ay < 4 * ax THEN 2
              ELSE 3
    IN IF v[1] >= 0 /\ v[2] >= 0 THEN q
       ELSE IF v[1] < 0 /\ v[2] >= 0 THEN 6 - q
       ELSE IF v[1] < 0 THEN 6 + q
       ELSE (12 - q) % 12

\* the heading of an angle, in steps of 30 degrees, 0..11
Heading(a) == (LatticeDir(a.dir) + a.turn) % 12

-----------------------------------------------------------------------------
(* Functions *)

\* .00000001 of get_angle, in squared 1e-6 steps
ZERO_LENGTH_SQ == 10000

\* .000001 of get_angle, in 1e-6 steps
VERTICAL_EPS == 1

\* math.atan(y / x): the angle strictly between -90 and 90 degrees of slope y/x
atan(y, x) == Angle(IF x > 0 THEN <<x, y>> ELSE <<-x, -y>>, 0)

\* angle + math.pi
PlusPi(a) == Angle(a.dir, a.turn + 6)

\* get_angle without the test for a zero length
get_angle_no_raise(start, end) ==
    LET y_diff == end[2] - start[2]
        x_diff == end[1] - start[1]
    IN IF Abs(x_diff) < VERTICAL_EPS
       THEN IF y_diff > 0 THEN Angle(<<Abs(y_diff), 0>>, 3)
                          ELSE Angle(<<Abs(y_diff), 0>>, -3)
       ELSE IF x_diff > 0 THEN atan(y_diff, x_diff)
       ELSE PlusPi(atan(y_diff, x_diff))

\* get_angle_at without the addition of math.pi
get_angle_at_no_pi(start, end, res) ==
    LET y_diff == end[2] - start[2]
        x_diff == end[1] - start[1]
    IN IF /\ Abs(x_diff) < ZERO_LENGTH_SQ * res
          /\ Abs(y_diff) < ZERO_LENGTH_SQ * res
          /\ y_diff * y_diff + x_diff * x_diff < ZERO_LENGTH_SQ * res * res
       THEN Raise("ValueError")
       ELSE IF Abs(x_diff) < VERTICAL_EPS * res
       THEN IF y_diff > 0 THEN Angle(<<Abs(y_diff), 0>>, 3)
                          ELSE Angle(<<Abs(y_diff), 0>>, -3)
       ELSE atan(y_diff, x_diff)

\* get_angle on points whose coordinates count 1/res of a 1e-6 step
get_angle_at(start, end, res) ==
    LET y_diff == end[2] - start[2]
        x_diff == end[1] - start[1]
    IN IF /\ Abs(x_diff) < ZERO_LENGTH_SQ * res
          /\ Abs(y_diff) < ZERO_LENGTH_SQ * res
          /\ y_diff * y_diff + x_diff * x_diff < ZERO_LENGTH_SQ * res * res
       THEN Raise("ValueError")
       ELSE IF Abs(x_diff) < VERTICAL_EPS * res
       THEN IF y_diff > 0 THEN Angle(<<Abs(y_diff), 0>>, 3)
                          ELSE Angle(<<Abs(y_diff), 0>>, -3)
       ELSE IF x_diff > 0 THEN atan(y_diff, x_diff)
       ELSE PlusPi(atan(y_diff, x_diff))

\* get_angle on points of the 1e-6 grid
get_angle(start, end) == get_angle_at(start, end, 1)

-----------------------------------------------------------------------------
(* HatFamilyTile *)

\* scaling = 1 and scaling = 0.0001, in 1e-6 steps per length unit
SCALING_ONE == 1000000

SCALING_SMALL == SCALING_ONE \div 10000

\* AllTiles.chiralities of hatlike.py
chiralities == [lb |-> "L", w |-> "L", db |-> "R", g |-> "L"]

\* AllTiles.dists, in length units (scaling is applied by Round6)
dists(p1, p2) == [FS |-> <<2 * p1[1], 2 * p1[2]>>, HS |-> p1, HH |-> p2]

\* dists[move.d] * math.cos(curr_angle) and dists[move.d] * math.sin(curr_angle),
\* each as round(., 6) adds it to a coordinate that is on the grid already
Displacement(len, k, sc) ==
    LET dx == RingMul(len, Cos2(k))
        dy == RingMul(len, Sin2(k))
    IN <<Round6(dx[1], dx[2], sc), Round6(dy[1], dy[2], sc)>>

\* the lengths and scalings of the model
Lengths == {<<a, b>> : a \in 0..4, b \in 0..2}

Scalings == {SCALING_ONE, SCALING_SMALL, HAT_SCALING \div 2}

\* Displacement, tabulated once
DISPLACEMENT ==
    [sc \in Scalings |->
        [len \in Lengths |->
            [k \in 0..11 |-> Displacement(len, k, sc)] @@ <<>>] @@ <<>>] @@ <<>>

\* TraceStep with the turn 'L' adding the angle
TraceStep_left_adds(curr_pt, curr_angle, move, dd, sc) ==
    LET angle_const == IF move.turn = "L" THEN 1 ELSE -1
        d == DISPLACEMENT[sc][dd[move.d]][curr_angle % 12]
    IN [curr_pt    |-> <<curr_pt[1] + d[1], curr_pt[2] + d[2]>>,
        curr_angle |-> curr_angle + angle_const * (move.angle \div 30)]

\* one turn of the loop of set_user_points: move, then turn; the angle is
\* kept as a heading in steps of 30 degrees
TraceStep(curr_pt, curr_angle, move, dd, sc) ==
    LET angle_const == IF move.turn = "L" THEN -1 ELSE 1
        d == DISPLACEMENT[sc][dd[move.d]][curr_angle % 12]
    IN [curr_pt    |-> <<curr_pt[1] + d[1], curr_pt[2] + d[2]>>,
        curr_angle |-> curr_angle + angle_const * (move.angle \div 30)]

RECURSIVE TraceLoop(_, _, _, _, _, _, _)
\* for move in move_list: ... pts.append(curr_pt)
TraceLoop(move_list, i, curr_pt, curr_angle, dd, sc, pts) ==
    IF i > Len(move_list)
    THEN [pts |-> pts, curr_pt |-> curr_pt, curr_angle |-> curr_angle]
    ELSE LET n == TraceStep(curr_pt, curr_angle, move_list[i], dd, sc)
         IN TraceLoop(move_list, i + 1, n.curr_pt, n.curr_angle, dd, sc,
                      Append(pts, n.curr_pt))

\* MoveList without the rotation to the start edge
MoveList_unrotated(chirality, start_pos) == MOVES[chirality]

\* move_list = MOVES[chirality][start_pos:] extended by MOVES[chirality][:start_pos]
MoveList(chirality, start_pos) ==
    PySliceFrom(MOVES[chirality], start_pos) \o PySliceTo(MOVES[chirality], start_pos)

\* the lists MOVES and EDGES of the module, which every tile reads
SharedTables == [MOVES |-> MOVES, EDGES |-> EDGES]

\* build_move_list with move_list bound to the list MOVES[chirality] itself,
\* so that extend lengthens the shared list
build_move_list_alias(tbl, chirality, start_edge) ==
    LET start_pos == index(EDGES[chirality], start_edge)
    IN [tbl EXCEPT !.MOVES[chirality] = @ \o PySliceTo(@, start_pos)]

\* the shared lists after move_list = MOVES[chirality][start_pos:] and
\* move_list.extend(MOVES[chirality][:start_pos]): the slice is a new list
\* and extend changes that list only
build_move_list(tbl, chirality, start_edge) ==
    LET start_pos == index(EDGES[chirality], start_edge)
        heap0 == [tables    |-> tbl,
                  move_list |-> PySliceFrom(tbl.MOVES[chirality], start_pos)]
        heap1 == [heap0 EXCEPT !.move_list =
                     @ \o PySliceTo(heap0.tables.MOVES[chirality], start_pos)]
    IN heap1.tables

\* Rearrange with pts[-start_pos:] read as the last start_pos points, which
\* are none for start_pos = 0
Rearrange_last(pts, start_pos) ==
    SubSeq(pts, Len(pts) - start_pos + 1, Len(pts)) \o PySliceTo(pts, -start_pos)

\* Rearrange with the slices taken at start_pos instead of -start_pos
Rearrange_forward(pts, start_pos) ==
    PySliceFrom(pts, start_pos) \o PySliceTo(pts, start_pos)

\* out_list = pts[-start_pos:] extended by pts[:-start_pos]
Rearrange(pts, start_pos) ==
    PySliceFrom(pts, -start_pos) \o PySliceTo(pts, -start_pos)

\* lines 230-254 of set_user_points: trace the 13 moves from curr_pt along
\* curr_angle; last_pt and last_angle are curr_pt and curr_angle after the loop
TraceFrom(chirality, start_edge, curr_pt, curr_angle, dd, sc) ==
    LET start_pos == index(EDGES[chirality], start_edge)
        t == TraceLoop(MoveList(chirality, start_pos), 1, curr_pt,
                       Heading(curr_angle), dd, sc, <<>>)
    IN [user_points |-> Rearrange(t.pts, start_pos),
        last_pt     |-> t.curr_pt,
        last_angle  |-> t.curr_angle]

\* StartOf with the rule of equal chiralities applied to every match
StartOf_same(all, chirality, match_id, match_edge) ==
    IF match_edge = <<>>
    THEN [raised     |-> "none",
          curr_pt    |-> <<_FIRST_TILE_W * all.scaling, _FIRST_TILE_H * all.scaling>>,
          curr_angle |-> Angle(<<1, 0>>, all.first_tile_angle)]
    ELSE IF match_id \notin DOMAIN all.tiles
    THEN Raise("KeyError")
    ELSE LET match_tile  == all.tiles[match_id]
             match_pos   == index(EDGES[match_tile.chirality], match_edge)
             match_end   == At(match_tile.user_points, match_pos)
             match_start == At(match_tile.user_points, (match_pos - 1) % 13)
             a == get_angle(match_end, match_start)
         IN IF a.raised # "none" THEN Raise(a.raised)
            ELSE [raised |-> "none", curr_pt |-> match_end, curr_angle |-> a]

\* lines 206-228 of set_user_points: where and in which direction to start;
\* all is the record of the AllTiles fields read here
StartOf(all, chirality, match_id, match_edge) ==
    IF match_edge = <<>>
    THEN [raised     |-> "none",
          curr_pt    |-> <<_FIRST_TILE_W * all.scaling, _FIRST_TILE_H * all.scaling>>,
          curr_angle |-> Angle(<<1, 0>>, all.first_tile_angle)]
    ELSE IF match_id \notin DOMAIN all.tiles
    THEN Raise("KeyError")
    ELSE LET match_tile  == all.tiles[match_id]
             match_pos   == index(EDGES[match_tile.chirality], match_edge)
             match_end   == At(match_tile.user_points, match_pos)
             match_start == At(match_tile.user_points, (match_pos - 1) % 13)
             a == IF chirality = match_tile.chirality
                  THEN get_angle(match_end, match_start)
                  ELSE get_angle(match_start, match_end)
         IN IF a.raised # "none" THEN Raise(a.raised)
            ELSE [raised     |-> "none",
                  curr_pt    |-> IF chirality = match_tile.chirality
                                 THEN match_end ELSE match_start,
                  curr_angle |-> a]

\* HatFamilyTile.__init__: the fields are set, then set_user_points runs;
\* user_points stays None (<<>>) when it raises.  curr_pt and curr_angle are
\* HatFamilyTile with the test of add_hat for a known id made first
HatFamilyTile_id_first(all, tile_id, start_edge, color, match_edge, match_id) ==
    LET chirality == chiralities[color]
        self == [tile_id     |-> tile_id,
                 chirality   |-> chirality,
                 color       |-> color,
                 start_edge  |-> start_edge,
                 match_edge  |-> match_edge,
                 match_id    |-> match_id,
                 user_points |-> <<>>]
        st == StartOf(all, chirality, match_id, match_edge)
    IN IF tile_id \in DOMAIN all.tiles
       THEN [raised |-> "ValueError_id_already_exists", tile |-> self]
       ELSE IF st.raised # "none" THEN [raised |-> st.raised, tile |-> self]
       ELSE [raised     |-> "none",
             curr_pt    |-> st.curr_pt,
             curr_angle |-> Heading(st.curr_angle),
             tile       |-> [self EXCEPT !.user_points =
                                 TraceFrom(chirality, start_edge, st.curr_pt,
                                     st.curr_angle,
                                     dists(all.tile_param1, all.tile_param2),
                                     all.scaling).user_points]]

\* the point and the heading the trace starts from
HatFamilyTile(all, tile_id, start_edge, color, match_edge, match_id) ==
    LET chirality == chiralities[color]
        self == [tile_id     |-> tile_id,
                 chirality   |-> chirality,
                 color       |-> color,
                 start_edge  |-> start_edge,
                 match_edge  |-> match_edge,
                 match_id    |-> match_id,
                 user_points |-> <<>>]
        st == StartOf(all, chirality, match_id, match_edge)
    IN IF st.raised # "none" THEN [raised |-> st.raised, tile |-> self]
       ELSE [raised     |-> "none",
             curr_pt    |-> st.curr_pt,
             curr_angle |-> Heading(st.curr_angle),
             tile       |-> [self EXCEPT !.user_points =
                                 TraceFrom(chirality, start_edge, st.curr_pt,
                                     st.curr_angle,
                                     dists(all.tile_param1, all.tile_param2),
                                     all.scaling).user_points]]

-----------------------------------------------------------------------------
(* AllTiles *)

\* the fields of the AllTiles object that tile construction reads
All == [tiles            |-> tiles,
        tile_param1      |-> tile_param1,
        tile_param2      |-> tile_param2,
        first_tile_angle |-> first_tile_angle,
        scaling          |-> scaling]

NoTiles == [i \in {} |-> i]

\* an optional float: None, or the value in a 1-tuple
None == <<>>

Some(v) == <<v>>

\* AllTiles.__init__ with the given parameters: an empty store
NewAllTiles(cfg) ==
    /\ tile_param1 = cfg.p1
    /\ tile_param2 = cfg.p2
    /\ first_tile_angle = cfg.angle
    /\ scaling = cfg.scaling
    /\ tiles = NoTiles
    /\ unit = 1
    /\ order = <<>>
    /\ left_x = None
    /\ right_x = None
    /\ top_y = None
    /\ bottom_y = None

\* add_hat without the test for a known id
add_hat_overwrite(hat) ==
    /\ tiles' = [i \in DOMAIN tiles \cup {hat.tile_id} |->
                     IF i = hat.tile_id THEN hat ELSE tiles[i]]
    /\ order' = IF hat.tile_id \in DOMAIN tiles THEN order
                ELSE Append(order, hat.tile_id)
    /\ UNCHANGED <<pc, err>>

\* add_hat: self.tiles[hat.tile_id] = hat, keys kept in insertion order
add_hat(hat) ==
    IF hat.tile_id \in DOMAIN tiles
    THEN /\ err' = "ValueError_id_already_exists"
         /\ pc' = "aborted"
         /\ UNCHANGED <<tiles, order>>
    ELSE /\ tiles' = [i \in DOMAIN tiles \cup {hat.tile_id} |->
                         IF i = hat.tile_id THEN hat ELSE tiles[i]]
         /\ order' = Append(order, hat.tile_id)
         /\ UNCHANGED <<pc, err>>

\* get_pt returning the vertex before the one of the edge
get_pt_before(tile_id, edge) ==
    LET tile   == tiles[tile_id]
        pt_idx == index(EDGES[tile.chirality], edge)
    IN At(tile.user_points, (pt_idx - 1) % 13)

\* get_pt: the point at the end of the edge
get_pt(tile_id, edge) ==
    LET tile   == tiles[tile_id]
        pt_idx == index(EDGES[tile.chirality], edge)
    IN At(tile.user_points, pt_idx)

Segment(start, stop) == [start |-> start, stop |-> stop]

\* dist(pt1, pt2): the square root of sq
dist(pt1, pt2) ==
    [sq |-> (pt2[2] - pt1[2]) * (pt2[2] - pt1[2]) + (pt2[1] - pt1[1]) * (pt2[1] - pt1[1])]

\* complex numbers <<re, im>> with integer parts
CMul(z, w) == <<z[1] * w[1] - z[2] * w[2], z[1] * w[2] + z[2] * w[1]>>

Conj(z) == <<z[1], -z[2]>>

\* z turned by q * 90 degrees
QuarterTurns(z, q) ==
    IF q % 4 = 0 THEN z
    ELSE IF q % 4 = 1 THEN <<-z[2], z[1]>>
    ELSE IF q % 4 = 2 THEN <<-z[1], -z[2]>>
    ELSE <<z[2], -z[1]>>

\* set_origin with (left, top) added to every point
set_origin_plus(ts, u, left, top) ==
    [id \in DOMAIN ts |->
        [ts[id] EXCEPT !.user_points =
            [i \in DOMAIN ts[id].user_points |->
                <<ts[id].user_points[i][1] + left * u,
                  ts[id].user_points[i][2] + top * u>>]]]

\* set_origin: every point minus (left, top); ts are the tiles, whose
\* coordinates count 1/u of a 1e-6 step, left and top count 1e-6 steps
set_origin(ts, u, left, top) ==
    [id \in DOMAIN ts |->
        [ts[id] EXCEPT !.user_points =
            [i \in DOMAIN ts[id].user_points |->
                <<ts[id].user_points[i][1] - left * u,
                  ts[id].user_points[i][2] - top * u>>]]]

\* rotate_and_rescale with the rotation turning the other way
rotate_and_rescale_clockwise(ts, u, angle, factor) ==
    LET z == CMul(angle.a1.dir, Conj(angle.a2.dir))
        w == QuarterTurns(z, (angle.a1.turn - angle.a2.turn) \div 3)
    IN [tiles |->
           [id \in DOMAIN ts |->
               [ts[id] EXCEPT !.user_points =
                   [i \in DOMAIN ts[id].user_points |->
                       LET pt == ts[id].user_points[i]
                       IN <<w[1] * pt[1] + w[2] * pt[2],
                            w[1] * pt[2] - w[2] * pt[1]>>]]],
        unit  |-> u * factor.den.sq]

\* rotate_and_rescale(angle, scaling) for angle = a1 - a2 and scaling =
\* factor = num / den, where a1 is the angle of a segment of length num and a2 the
\* angle of a segment of length den, as change_coordinates calls it:
\* a1.dir has the length num and a2.dir the length den, so
\* scaling * cos(angle) and scaling * sin(angle) are the real and the
\* imaginary part of a1.dir * conj(a2.dir), turned by the quarter turns of
\* the two angles, over den squared
rotate_and_rescale(ts, u, angle, factor) ==
    LET z == CMul(angle.a1.dir, Conj(angle.a2.dir))
        w == QuarterTurns(z, (angle.a1.turn - angle.a2.turn) \div 3)
    IN [tiles |->
           [id \in DOMAIN ts |->
               [ts[id] EXCEPT !.user_points =
                   [i \in DOMAIN ts[id].user_points |->
                       LET pt == ts[id].user_points[i]
                       IN <<w[1] * pt[1] - w[2] * pt[2],
                            w[2] * pt[1] + w[1] * pt[2]>>]]],
        unit  |-> u * factor.den.sq]

\* change_coordinates with the last set_origin called with (pt2n[0], pt2n[1])
change_coordinates_plus(new_segment_coords, old_segment_coords) ==
    LET pt1n == new_segment_coords.start
        pt2n == new_segment_coords.stop
        pt1o == old_segment_coords.start
        pt2o == old_segment_coords.stop
        a1 == get_angle(pt1n, pt2n)
        a2 == get_angle(pt1o, pt2o)
    IN IF a1.raised # "none" \/ a2.raised # "none"
       THEN /\ err' = "ValueError"
            /\ pc' = "aborted"
            /\ UNCHANGED <<tiles, unit>>
       ELSE LET moved   == set_origin(tiles, unit, pt2o[1], pt2o[2])
                turned  == rotate_and_rescale(moved, unit,
                               [a1 |-> a1, a2 |-> a2],
                               [num |-> dist(pt1n, pt2n), den |-> dist(pt1o, pt2o)])
            IN /\ tiles' = set_origin(turned.tiles, turned.unit, pt2n[1], pt2n[2])
               /\ unit' = turned.unit
               /\ pc' = "aligned"
               /\ UNCHANGED err

\* change_coordinates: both angles are taken before a point is changed
change_coordinates(new_segment_coords, old_segment_coords) ==
    LET pt1n == new_segment_coords.start
        pt2n == new_segment_coords.stop
        pt1o == old_segment_coords.start
        pt2o == old_segment_coords.stop
        a1 == get_angle(pt1n, pt2n)
        a2 == get_angle(pt1o, pt2o)
    IN IF a1.raised # "none" \/ a2.raised # "none"
       THEN /\ err' = "ValueError"
            /\ pc' = "aborted"
            /\ UNCHANGED <<tiles, unit>>
       ELSE LET moved   == set_origin(tiles, unit, pt2o[1], pt2o[2])
                turned  == rotate_and_rescale(moved, unit,
                               [a1 |-> a1, a2 |-> a2],
                               [num |-> dist(pt1n, pt2n), den |-> dist(pt1o, pt2o)])
            IN /\ tiles' = set_origin(turned.tiles, turned.unit, -pt2n[1], -pt2n[2])
               /\ unit' = turned.unit
               /\ pc' = "aligned"
               /\ UNCHANGED err

-----------------------------------------------------------------------------
(* Cropping and output *)

\* set_crop_values with None read as "keep the value set before"
set_crop_values_keep(l, b, r, t) ==
    /\ left_x' = IF l = None THEN left_x ELSE l
    /\ bottom_y' = IF b = None THEN bottom_y ELSE b
    /\ right_x' = IF r = None THEN right_x ELSE r
    /\ top_y' = IF t = None THEN top_y ELSE t

\* set_crop_values: the four fields are assigned, None included
set_crop_values(l, b, r, t) ==
    /\ left_x' = l
    /\ bottom_y' = b
    /\ right_x' = r
    /\ top_y' = t

SetMin(S) == CHOOSE x \in S : \A y \in S : x <= y

SetMax(S) == CHOOSE x \in S : \A y \in S : x >= y

\* HatFamilyTile.get_boundary, in the coordinates of the store
get_boundary(tile, side) ==
    LET xs == { tile.user_points[i][1] : i \in DOMAIN tile.user_points }
        ys == { tile.user_points[i][2] : i \in DOMAIN tile.user_points }
    IN IF side = "L" THEN SetMin(xs)
       ELSE IF side = "R" THEN SetMax(xs)
       ELSE IF side = "B" THEN SetMax(ys)
       ELSE SetMin(ys)

\* get_boundaries, in the coordinates of the store (a crop value v is v * unit
\* there); min() and max() of an empty list raise ValueError
get_boundaries ==
    IF DOMAIN tiles = {} /\ None \in {left_x, bottom_y, right_x, top_y}
    THEN [raised |-> "ValueError"]
    ELSE [raised   |-> "none",
          left_x   |-> IF left_x = None
                       THEN SetMin({ get_boundary(tiles[id], "L") : id \in DOMAIN tiles })
                       ELSE left_x[1] * unit,
          bottom_y |-> IF bottom_y = None
                       THEN SetMax({ get_boundary(tiles[id], "B") : id \in DOMAIN tiles })
                       ELSE bottom_y[1] * unit,
          right_x  |-> IF right_x = None
                       THEN SetMax({ get_boundary(tiles[id], "R") : id \in DOMAIN tiles })
                       ELSE right_x[1] * unit,
          top_y    |-> IF top_y = None
                       THEN SetMin({ get_boundary(tiles[id], "T") : id \in DOMAIN tiles })
                       ELSE top_y[1] * unit]

\* what f.write puts in the file: the separator, str(int), a float under the
\* format .6f (v counts 1e-6 steps) and a text (v numbers the texts px_0, px_1, ...)
Sep == [k |-> "sep", v |-> 0, s |-> "\t"]

IntText(i) == [k |-> "int", v |-> i, s |-> ""]

Float(v) == [k |-> "float", v |-> v, s |-> ""]

Str(s) == [k |-> "str", v |-> 0, s |-> s]

StrN(s, i) == [k |-> "str", v |-> i, s |-> s]

\* f'{x:.6f}' of the coordinate c / u: the nearest 1e-6 step, ties to even
Format6(c, u) ==
    LET q == c \div u
        r == c % u
    IN Float(IF 2 * r < u THEN q
             ELSE IF 2 * r > u THEN q + 1
             ELSE IF q % 2 = 0 THEN q ELSE q + 1)

\* pt_headers: px_0, py_0, px_1, ... joined by the separator
pt_headers(max_pts) ==
    [j \in 1..(IF max_pts = 0 THEN 0 ELSE 4 * max_pts - 1) |->
        IF j % 2 = 0 THEN Sep
        ELSE IF j % 4 = 1 THEN StrN("px_", j \div 4)
        ELSE StrN("py_", j \div 4)]

\* the colors of hatlike.py
colors == [lb |-> "#66ccff", w |-> "#ffffff", db |-> "#006699", g |-> "#A0A0A0"]

\* the header line of write_points_to_file
Headers(max_pts) ==
    << Str("seq_id"), Sep, Str("start_fill_color"), Sep,
       Str("start_stroke_color"), Sep, Str("done_fill_color"), Sep,
       Str("done_stroke_color"), Sep, Str("footnote"), Sep,
       Str("img_width"), Sep, Str("img_height"), Sep >> \o pt_headers(max_pts)

\* FileRow with the id of the tile written as seq_id
FileRow_tile_id(idx, tile, img_width, img_height, max_pts, u) ==
    << IntText(tile.tile_id), Sep,
       Str(colors[tile.color]), Sep,
       Str("#000000"), Sep,
       Str("#00000000"), Sep,
       Str("#00000000"), Sep,
       Str(""), Sep,
       Format6(img_width, u), Sep,
       Format6(img_height, u) >>
    \o [j \in 1..(4 * Len(tile.user_points)) |->
           IF j % 2 = 1 THEN Sep
           ELSE IF j % 4 = 2 THEN Format6(tile.user_points[(j + 2) \div 4][1], u)
           ELSE Format6(tile.user_points[j \div 4][2], u)]
    \o [j \in 1..(max_pts - Len(tile.user_points)) |-> Str("{sep}{sep}")]

\* one turn of the loop over the tiles in write_points_to_file: the writes
\* of one line, the footnote of a tile being '' and its colors those of
\* set_colors; the padding is the text of a string that is not an f-string
FileRow(idx, tile, img_width, img_height, max_pts, u) ==
    << IntText(idx), Sep,
       Str(colors[tile.color]), Sep,
       Str("#000000"), Sep,
       Str("#00000000"), Sep,
       Str("#00000000"), Sep,
       Str(""), Sep,
       Format6(img_width, u), Sep,
       Format6(img_height, u) >>
    \o [j \in 1..(4 * Len(tile.user_points)) |->
           IF j % 2 = 1 THEN Sep
           ELSE IF j % 4 = 2 THEN Format6(tile.user_points[(j + 2) \div 4][1], u)
           ELSE Format6(tile.user_points[j \div 4][2], u)]
    \o [j \in 1..(max_pts - Len(tile.user_points)) |-> Str("{sep}{sep}")]

\* write_points_to_file with the origin set to (left, bottom)
write_points_to_file_bottom ==
    LET b == get_boundaries
    IN IF b.raised # "none"
       THEN /\ err' = b.raised
            /\ pc' = "aborted"
            /\ UNCHANGED <<tiles, file>>
       ELSE LET moved      == set_origin(tiles, 1, b.left_x, b.bottom_y)
                img_width  == b.right_x - b.left_x
                img_height == b.bottom_y - b.top_y
            IN /\ tiles' = moved
               /\ IF order = <<>>
                  THEN /\ file' = <<>>
                       /\ err' = "ValueError"
                       /\ pc' = "aborted"
                  ELSE LET max_pts == SetMax({ Len(moved[id].user_points) : id \in DOMAIN moved })
                       IN /\ file' = <<Headers(max_pts)>> \o
                                [k \in 1..Len(order) |->
                                    FileRow(k - 1, moved[order[k]], img_width,
                                            img_height, max_pts, unit)]
                          /\ pc' = "written"
                          /\ UNCHANGED err

\* write_points_to_file: the boundaries are taken, the origin is moved to
\* (left, top), the file is opened and the header and one line per tile are
\* written; b and the points count 1/unit of a 1e-6 step, so set_origin is
\* used with u = 1.  max() of an empty list raises after the file is opened
write_points_to_file ==
    LET b == get_boundaries
    IN IF b.raised # "none"
       THEN /\ err' = b.raised
            /\ pc' = "aborted"
            /\ UNCHANGED <<tiles, file>>
       ELSE LET moved      == set_origin(tiles, 1, b.left_x, b.top_y)
                img_width  == b.right_x - b.left_x
                img_height == b.bottom_y - b.top_y
            IN /\ tiles' = moved
               /\ IF order = <<>>
                  THEN /\ file' = <<>>
                       /\ err' = "ValueError"
                       /\ pc' = "aborted"
                  ELSE LET max_pts == SetMax({ Len(moved[id].user_points) : id \in DOMAIN moved })
                       IN /\ file' = <<Headers(max_pts)>> \o
                                [k \in 1..Len(order) |->
                                    FileRow(k - 1, moved[order[k]], img_width,
                                            img_height, max_pts, unit)]
                          /\ pc' = "written"
                          /\ UNCHANGED err

-----------------------------------------------------------------------------
(* hat.py: the hat tiling with the match_rev column *)

\* get_angle of hat.py, which raises nothing
Hat_get_angle(start, end) ==
    LET y_diff == end[2] - start[2]
        x_diff == end[1] - start[1]
    IN IF Abs(x_diff) < VERTICAL_EPS
       THEN IF y_diff > 0 THEN Angle(<<Abs(y_diff), 0>>, 3)
                          ELSE Angle(<<Abs(y_diff), 0>>, -3)
       ELSE IF x_diff > 0 THEN atan(y_diff, x_diff)
       ELSE PlusPi(atan(y_diff, x_diff))

\* FIRST_TILE_W and FIRST_TILE_H of hat.py
FIRST_TILE_W == -2

FIRST_TILE_H == -2

\* Hat_StartOf without the comparison of match_rev with the chiralities
Hat_StartOf_unchecked(TILES, chirality, match_id, match_edge, match_rev) ==
    IF match_edge = <<>>
    THEN [raised     |-> "none",
          curr_pt    |-> <<FIRST_TILE_W * HAT_SCALING, FIRST_TILE_H * HAT_SCALING>>,
          curr_angle |-> Angle(<<1, 0>>, 0)]
    ELSE IF match_id \notin DOMAIN TILES
    THEN Raise("KeyError")
    ELSE LET match_tile  == TILES[match_id]
             match_pos   == index(EDGES[match_tile.chirality], match_edge)
             match_end   == At(match_tile.user_points, match_pos)
             match_start == At(match_tile.user_points, (match_pos - 1) % 13)
         IN IF match_rev
            THEN [raised     |-> "none",
                  curr_pt    |-> match_end,
                  curr_angle |-> Hat_get_angle(match_end, match_start)]
            ELSE [raised     |-> "none",
                  curr_pt    |-> match_start,
                  curr_angle |-> Hat_get_angle(match_start, match_end)]

\* the first lines of Hat.set_user_points: where and in which direction to
\* start.  The model traces in the frame of the first tile, which is the
\* frame of the program turned by FIRST_TILE_ANGLE (15 degrees) about the
\* anchor of the first tile, so that the headings are multiples of 30 degrees
Hat_StartOf(TILES, chirality, match_id, match_edge, match_rev) ==
    IF match_edge = <<>>
    THEN [raised     |-> "none",
          curr_pt    |-> <<FIRST_TILE_W * HAT_SCALING, FIRST_TILE_H * HAT_SCALING>>,
          curr_angle |-> Angle(<<1, 0>>, 0)]
    ELSE IF match_id \notin DOMAIN TILES
    THEN Raise("KeyError")
    ELSE LET match_tile  == TILES[match_id]
             match_pos   == index(EDGES[match_tile.chirality], match_edge)
             match_end   == At(match_tile.user_points, match_pos)
             match_start == At(match_tile.user_points, (match_pos - 1) % 13)
         IN IF \/ (chirality # match_tile.chirality /\ match_rev)
               \/ (chirality = match_tile.chirality /\ ~match_rev)
            THEN Raise("ValueError_chirality_match_rev_mismatch")
            ELSE IF match_rev
            THEN [raised     |-> "none",
                  curr_pt    |-> match_end,
                  curr_angle |-> Hat_get_angle(match_end, match_start)]
            ELSE [raised     |-> "none",
                  curr_pt    |-> match_start,
                  curr_angle |-> Hat_get_angle(match_start, match_end)]

\* Hat2_StartOf with the rule of equal chiralities applied to every match
Hat2_StartOf_same(TILES, chirality, match_id, match_edge) ==
    IF match_edge = <<>>
    THEN [raised |-> "none", curr_pt |-> <<0, 0>>, curr_angle |-> Angle(<<1, 0>>, 0)]
    ELSE IF match_id \notin DOMAIN TILES
    THEN Raise("KeyError")
    ELSE LET match_tile  == TILES[match_id]
             match_pos   == index(EDGES[match_tile.chirality], match_edge)
             match_end   == At(match_tile.user_points, match_pos)
             match_start == At(match_tile.user_points, (match_pos - 1) % 13)
         IN [raised     |-> "none",
             curr_pt    |-> match_end,
             curr_angle |-> Hat_get_angle(match_end, match_start)]

\* the first lines of Hat.set_user_points of hat2.py, which has no
\* match_rev: the start is chosen by comparing the chiralities
\* (FIRST_TILE_W, FIRST_TILE_H and FIRST_TILE_ANGLE of hat2.py are 0)
Hat2_StartOf(TILES, chirality, match_id, match_edge) ==
    IF match_edge = <<>>
    THEN [raised |-> "none", curr_pt |-> <<0, 0>>, curr_angle |-> Angle(<<1, 0>>, 0)]
    ELSE IF match_id \notin DOMAIN TILES
    THEN Raise("KeyError")
    ELSE LET match_tile  == TILES[match_id]
             match_pos   == index(EDGES[match_tile.chirality], match_edge)
             match_end   == At(match_tile.user_points, match_pos)
             match_start == At(match_tile.user_points, (match_pos - 1) % 13)
         IN IF chirality = match_tile.chirality
            THEN [raised     |-> "none",
                  curr_pt    |-> match_end,
                  curr_angle |-> Hat_get_angle(match_end, match_start)]
            ELSE [raised     |-> "none",
                  curr_pt    |-> match_start,
                  curr_angle |-> Hat_get_angle(match_start, match_end)]

\* DISTS of hat.py in half sides: SCALING * 1, SCALING * 0.5, SCALING * sqrt(3)/2
Hat_DISTS == [FS |-> <<2, 0>>, HS |-> <<1, 0>>, HH |-> <<0, 1>>]

\* Hat.__init__: the fields are set, match_rev is read ('' is True, 'N' is
\* False, anything else raises), then set_user_points runs; user_points
\* stays None (<<>>) when one of them raises
Hat(TILES, hat_id, chirality, start_edge, match_edge, match_id, match_rev) ==
    LET self == [tile_id     |-> hat_id,
                 chirality   |-> chirality,
                 start_edge  |-> start_edge,
                 match_edge  |-> match_edge,
                 match_id    |-> match_id,
                 match_rev   |-> (match_rev = ""),
                 user_points |-> <<>>]
    IN IF match_rev \notin {"", "N"}
       THEN [raised |-> "ValueError_match_rev", tile |-> self]
       ELSE LET st == Hat_StartOf(TILES, chirality, match_id, match_edge, self.match_rev)
            IN IF st.raised # "none" THEN [raised |-> st.raised, tile |-> self]
               ELSE [raised     |-> "none",
                     curr_pt    |-> st.curr_pt,
                     curr_angle |-> Heading(st.curr_angle),
                     tile       |-> [self EXCEPT !.user_points =
                                         TraceFrom(chirality, start_edge, st.curr_pt,
                                             st.curr_angle, Hat_DISTS,
                                             HAT_SCALING \div 2).user_points]]

-----------------------------------------------------------------------------
(* show_progress.py: tiles change from 'start' to 'done' as the numerator falls *)

\* the tiles on the area border are not done first
BORDER_FIRST_off == FALSE

\* Do the tiles on the area border first?
BORDER_FIRST == TRUE

\* get_origin_and_scale: the scale max(w / img_width, h / img_height) as a
\* fraction; x0 and y0 are 0
get_origin_and_scale(img_width, img_height, w, h) ==
    IF h = 0 THEN [num |-> 1, den |-> 1]
    ELSE IF w * img_height >= h * img_width
    THEN [num |-> w, den |-> img_width]
    ELSE [num |-> h, den |-> img_height]

\* point_in; a device point <<X, Y>> of a tile stands for (X / den, Y / den)
point_in(pt, den, w, h) ==
    /\ 0 <= pt[1] /\ pt[1] <= w * den
    /\ 0 <= pt[2] /\ pt[2] <= h * den

\* 0 <= vint(pt1, pt2, x_val) <= h, for pt1 to the left of pt2
vint_in(pt1, pt2, x_val, den, h) ==
    LET v == pt1[2] * (pt2[1] - pt1[1]) + (x_val * den - pt1[1]) * (pt2[2] - pt1[2])
    IN 0 <= v /\ v <= h * den * (pt2[1] - pt1[1])

\* line_crosses: the segment crosses the left or the right side of the area
line_crosses(pt1, pt2, den, w, h) ==
    LET x1 == pt1[1]
        x2 == pt2[1]
    IN \/ IF x1 < 0 /\ x2 > 0 THEN vint_in(pt1, pt2, 0, den, h)
          ELSE IF x2 < 0 /\ x1 > 0 THEN vint_in(pt2, pt1, 0, den, h)
          ELSE FALSE
       \/ IF x1 < w * den /\ x2 > w * den THEN vint_in(pt1, pt2, w, den, h)
          ELSE IF x2 < w * den /\ x1 > w * den THEN vint_in(pt2, pt1, w, den, h)
          ELSE FALSE

\* Tile.__init__; None is "None" for tile_in and -1 for change_order
Tile(user_points) ==
    [user_points   |-> user_points,
     device_points |-> <<>>,
     den           |-> 1,
     on_border     |-> FALSE,
     tile_in       |-> "None",
     change_order  |-> -1,
     change_num    |-> -1]

\* Tile.set_device_points
set_device_points(tile, img_width, img_height, w, h) ==
    LET scale == get_origin_and_scale(img_width, img_height, w, h)
    IN [tile EXCEPT !.device_points =
                        [i \in DOMAIN tile.user_points |->
                            <<scale.num * tile.user_points[i][1],
                              scale.num * tile.user_points[i][2]>>],
                    !.den = scale.den]

\* Tile.set_tile_in
set_tile_in(tile, w, h) ==
    LET dp == tile.device_points
        n_pts_in == Cardinality({ i \in DOMAIN dp : point_in(dp[i], tile.den, w, h) })
        any_crosses ==
            \/ \E i \in 1..(Len(dp) - 1) : line_crosses(dp[i + 1], dp[i], tile.den, w, h)
            \/ line_crosses(dp[Len(dp)], dp[1], tile.den, w, h)
    IN [tile EXCEPT !.tile_in =
           IF n_pts_in = 0 THEN (IF any_crosses THEN "BORDER" ELSE "OUT")
           ELSE IF n_pts_in = Len(dp) THEN "IN"
           ELSE "BORDER"]

\* Tile.set_on_border
set_on_border(tile, w, h) ==
    [tile EXCEPT !.on_border =
        IF tile.tile_in = "BORDER" THEN TRUE
        ELSE IF tile.tile_in = "OUT" THEN FALSE
        ELSE \E i \in DOMAIN tile.device_points :
                \/ tile.device_points[i][1] \in {0, w * tile.den}
                \/ tile.device_points[i][2] \in {0, h * tile.den}]

\* Tile.draw with the comparison turned round
draw_reversed(tile, num) == IF tile.change_num > num THEN "start" ELSE "done"

\* the branch of Tile.draw: the colors the tile is drawn in
draw(tile, num) == IF tile.change_num < num THEN "start" ELSE "done"

\* TileDrawingArea.__init__ and load_tiles_from_file
TileDrawingArea(tile_file) ==
    [tiles              |-> [i \in DOMAIN tile_file.tiles |-> Tile(tile_file.tiles[i])],
     full_pad_list      |-> <<>>,
     denom              |-> 1,
     num                |-> 1,
     pending_dimensions |-> None,
     img_width          |-> tile_file.img_width,
     img_height         |-> tile_file.img_height]

\* the lists random.shuffle can leave of list(range(n))
Shuffles(n) == { l \in [1..n -> 0..(n - 1)] : \A i, j \in 1..n : l[i] = l[j] => i = j }

\* reset_change_order, tmp_list being the shuffled list
reset_change_order(d, tmp_list) ==
    [d EXCEPT !.tiles = [i \in DOMAIN d.tiles |->
                            [d.tiles[i] EXCEPT !.change_order = tmp_list[i]]]]

\* get_change_num_list without the pad_list
get_change_num_list_unpadded(d) ==
    LET n_tiles    == Len(d.tiles)
        n_visible  == Cardinality({ i \in DOMAIN d.tiles : d.tiles[i].tile_in # "OUT" })
        nsamples   == n_visible \div d.denom
        final_list == [j \in 1..(nsamples * d.denom) |-> (j - 1) % d.denom]
        add2_list  == [j \in 1..(n_tiles - n_visible) |-> -1]
    IN final_list \o add2_list

\* get_change_num_list with -1 in the place of the pad_list
get_change_num_list_minus_pad(d) ==
    LET n_tiles    == Len(d.tiles)
        n_visible  == Cardinality({ i \in DOMAIN d.tiles : d.tiles[i].tile_in # "OUT" })
        nsamples   == n_visible \div d.denom
        final_list == [j \in 1..(nsamples * d.denom) |-> (j - 1) % d.denom]
        add2_list  == [j \in 1..(n_tiles - Len(final_list)) |-> -1]
    IN final_list \o add2_list

\* get_change_num_list
get_change_num_list(d) ==
    LET n_tiles    == Len(d.tiles)
        n_visible  == Cardinality({ i \in DOMAIN d.tiles : d.tiles[i].tile_in # "OUT" })
        nsamples   == n_visible \div d.denom
        final_list == [j \in 1..(nsamples * d.denom) |-> (j - 1) % d.denom]
        pad_list   == PySliceTo(d.full_pad_list, n_visible - Len(final_list))
        add2_list  == [j \in 1..(n_tiles - n_visible) |-> -1]
    IN final_list \o pad_list \o add2_list

\* list.sort(reverse=True) of a list of integers
SortReverse(l) ==
    LET rank == [j \in 1..Len(l) |->
                   Cardinality({ m \in 1..Len(l) : l[m] > l[j] \/ (l[m] = l[j] /\ m < j) })]
    IN [k \in 1..Len(l) |-> l[CHOOSE j \in 1..Len(l) : rank[j] = k - 1]]

\* the order of the tuples (sort_cat, -change_order, tile_idx)
TupleLess(a, b) ==
    \/ a[1] < b[1]
    \/ a[1] = b[1] /\ a[2] < b[2]
    \/ a[1] = b[1] /\ a[2] = b[2] /\ a[3] < b[3]

\* set_change_nums without the two sorts
set_change_nums_unsorted(d, border_first) ==
    LET value_list == get_change_num_list(d)
    IN IF Len(value_list) # Len(d.tiles)
       THEN [raised |-> "ValueError", dw |-> d]
       ELSE [raised |-> "none",
             dw |-> [d EXCEPT !.tiles = [i \in DOMAIN d.tiles |->
                        [d.tiles[i] EXCEPT !.change_num = value_list[i]]]]]

\* set_change_nums: the values in falling order go to the tiles in the order
\* of (sort_cat, -change_order, tile_idx)
set_change_nums(d, border_first) ==
    LET value_list == get_change_num_list(d)
        sorted     == SortReverse(value_list)
        key        == [i \in DOMAIN d.tiles |->
                         << IF d.tiles[i].tile_in = "OUT" THEN 2
                            ELSE IF border_first /\ d.tiles[i].on_border THEN 0
                            ELSE 1,
                            -d.tiles[i].change_order,
                            i - 1 >>]
        idx        == [i \in DOMAIN d.tiles |->
                         Cardinality({ j \in DOMAIN d.tiles : TupleLess(key[j], key[i]) })]
    IN IF Len(value_list) # Len(d.tiles)
       THEN [raised |-> "ValueError", dw |-> d]
       ELSE [raised |-> "none",
             dw |-> [d EXCEPT !.tiles = [i \in DOMAIN d.tiles |->
                        [d.tiles[i] EXCEPT !.change_num = sorted[idx[i] + 1]]]]]

\* set_numerator (queue_draw is in the action)
set_numerator(d, num) == [d EXCEPT !.num = num]

\* complete_resize (queue_draw is in the action)
complete_resize(d, w, h) ==
    set_change_nums(
        [d EXCEPT !.tiles = [i \in DOMAIN d.tiles |->
            set_on_border(
                set_tile_in(
                    set_device_points(d.tiles[i], d.img_width, d.img_height, w, h),
                    w, h),
                w, h)]],
        BORDER_FIRST)

\* on_resize that completes the resize at once
on_resize_complete(d, width, height) ==
    [complete_resize(d, width, height).dw EXCEPT !.pending_dimensions = <<width, height>>]

\* on_resize (queue_draw is in the action)
on_resize(d, width, height) ==
    [d EXCEPT !.pending_dimensions = <<width, height>>,
              !.tiles = [i \in DOMAIN d.tiles |->
                  set_device_points(d.tiles[i], d.img_width, d.img_height,
                                    width, height)]]

\* queue_draw
queue_draw(scr) == [scr EXCEPT !.queued = TRUE]

-----------------------------------------------------------------------------
(* Inputs *)

Len1   == <<1, 0>>
Len0   == <<0, 0>>
LenR3  == <<0, 1>>
Len2   == <<2, 0>>

Config(p1, p2, a, sc) == [p1 |-> p1, p2 |-> p2, angle |-> a, scaling |-> sc]

\* the stores of Spec: the hat, the comet (p2 = 0) and Tile(1, 1) turned by 90 degrees
StoreConfigs == { Config(Len1, LenR3, 0, SCALING_ONE),
                  Config(Len1, Len0, 0, SCALING_ONE),
                  Config(Len1, Len1, 3, SCALING_ONE) }

\* tile_id of the next row: the id of the first tile, or the least unused id
\* (ids are used in increasing order; a tiling is the same under renaming)
RowIds == {1, Len(order) + 1}

\* match_id of the next row: 0 for the empty string, an id already used, or
\* the least unused one, which is in no row so far (the row's own id or the
\* id of a later row)
MatchIds == 0..(Len(order) + 1)

RowColors == {"w", "db"}

\* the match_edge names of the rows of Spec: index 0, 7, 5 of LEFT_EDGES
\* (half side, height, full side) and 7, 0, 2 of RIGHT_EDGES (height, half
\* side, height)
RowEdges == { <<"L","P">>, <<"R","P">>, <<"R","S">> }

\* the start_edge names of the rows of Spec: index 0, 5 of LEFT_EDGES (half
\* side, full side) and 7, 2 of RIGHT_EDGES (height, height)
RowStartEdges == { <<"L","P">>, <<"R","S">> }

NoTrace == [call |-> "none"]

\* show_progress.py is not running
NoWindow == dw = <<>> /\ screen = <<>>

-----------------------------------------------------------------------------
(* Spec: add_all_tiles reads a configuration file row by row *)

Init ==
    /\ \E cfg \in StoreConfigs : NewAllTiles(cfg)
    /\ pc = "rows"
    /\ err = "none"
    /\ tr = NoTrace
    /\ file = <<>>
    /\ NoWindow
    /\ tables = SharedTables

\* one turn of the loop of add_all_tiles:
\* self.add_hat(HatFamilyTile(all_tiles=self, ...row...));
\* tr keeps the tile under construction and where its trace started
AddRow(tile_id, color, start_edge, match_id, match_edge) ==
    /\ pc = "rows"
    /\ Len(order) < MaxRows
    /\ LET h == HatFamilyTile(All, tile_id, start_edge, color, match_edge, match_id)
       IN IF h.raised # "none"
          THEN /\ err' = h.raised
               /\ pc' = "aborted"
               /\ tr' = [call |-> "raised", tile |-> h.tile]
               /\ UNCHANGED <<tiles, order>>
          ELSE /\ tr' = [call       |-> "set_user_points",
                         tile       |-> h.tile,
                         curr_pt    |-> h.curr_pt,
                         curr_angle |-> h.curr_angle]
               /\ add_hat(h.tile)
    /\ UNCHANGED <<tile_param1, tile_param2, first_tile_angle, scaling, unit>>
    /\ UNCHANGED <<left_x, bottom_y, right_x, top_y, file, dw, screen>>
    /\ tables' = IF HatFamilyTile(All, tile_id, start_edge, color, match_edge,
                                  match_id).raised # "none"
                  THEN tables
                  ELSE build_move_list(tables, chiralities[color], start_edge)

\* the reader is exhausted: add_all_tiles returns
EndOfFile ==
    /\ pc = "rows"
    /\ pc' = "loaded"
    /\ UNCHANGED <<tile_param1, tile_param2, first_tile_angle, scaling, tiles,
                   unit, order, err, tr>>
    /\ UNCHANGED <<left_x, bottom_y, right_x, top_y, file, dw, screen, tables>>

Next ==
    \/ \E tile_id \in RowIds, color \in RowColors, start_edge \in RowStartEdges,
          match_id \in MatchIds, match_edge \in RowEdges \cup {<<>>} :
          AddRow(tile_id, color, start_edge, match_id, match_edge)
    \/ EndOfFile

Spec == Init /\ [][Next]_vars

-----------------------------------------------------------------------------
(* Properties of the store (Spec) *)

Near(p, q, tol) == Abs(p[1] - q[1]) <= tol /\ Abs(p[2] - q[2]) <= tol

\* the length of edge i (0-based) of a tile: the move that draws it
EdgeLength(chirality, i) == dists(tile_param1, tile_param2)[At(MOVES[chirality], i).d]

\* a tile of the store that was placed on an edge of another tile
MatchedIds == {id \in DOMAIN tiles : tiles[id].match_edge # <<>>}

\* of a matched tile B on tile A: the index of the matched edge in A, its end
\* and start vertex in A, and the two vertices of B's start edge
MatchOf(B) ==
    LET A  == tiles[B.match_id]
        ia == index(EDGES[A.chirality], B.match_edge)
        ib == index(EDGES[B.chirality], B.start_edge)
    IN [A       |-> A,
        ia      |-> ia,
        ib      |-> ib,
        A_end   |-> At(A.user_points, ia),
        A_start |-> At(A.user_points, (ia - 1) % 13),
        B_prev  |-> At(B.user_points, (ib - 1) % 13),
        B_at    |-> At(B.user_points, ib)]

\* 2e-5 length units at scaling 1, in 1e-6 steps: above what the rounding of
\* the 13 moves of two tiles adds up to
EDGE_TOL == SCALING_ONE \div 50000

C5_Placement ==
    (tr.call = "set_user_points" /\ tr.tile.match_edge # <<>>) =>
        LET m == MatchOf(tr.tile)
        IN IF tr.tile.chirality = m.A.chirality
           THEN /\ tr.curr_pt = m.A_end
                /\ tr.curr_angle = LatticeDir(<<m.A_start[1] - m.A_end[1],
                                                m.A_start[2] - m.A_end[2]>>)
           ELSE /\ tr.curr_pt = m.A_start
                /\ tr.curr_angle = LatticeDir(<<m.A_end[1] - m.A_start[1],
                                                m.A_end[2] - m.A_start[2]>>)

\* a tile placed on a tile of the other chirality, on an edge that does not
\* run along the x axis
C5_PlacementWitness ==
    /\ tr.call = "set_user_points"
    /\ tr.tile.match_edge # <<>>
    /\ tr.tile.tile_id \in DOMAIN tiles
    /\ tiles[tr.tile.tile_id] = tr.tile
    /\ tr.tile.chirality # tiles[tr.tile.match_id].chirality
    /\ tr.curr_angle \notin {0, 6}
    /\ tr.curr_pt = MatchOf(tr.tile).A_start

\* a step of the loop of add_all_tiles
RowStep == pc = "rows" /\ pc' # "loaded"

StoreUnchanged == tiles' = tiles /\ order' = order /\ unit' = unit

\* C6: a row whose tile id is in the store already, with a match reference
\* that resolves (known tile, edge of non-zero length), ends the run with
\* the duplicate-id error and leaves the ids, their order and every tile's
\* vertices as they were
C6_DuplicateId ==
    [][(/\ RowStep
        /\ tr'.tile.tile_id \in DOMAIN tiles
        /\ tr'.tile.match_edge # <<>>
        /\ tr'.call = "set_user_points")
       => (/\ err' = "ValueError_id_already_exists"
           /\ pc' = "aborted"
           /\ StoreUnchanged)]_vars

\* a run ended by a matched row with the id of a tile of the store
C6_DuplicateIdWitness ==
    /\ err = "ValueError_id_already_exists"
    /\ pc = "aborted"
    /\ tr.call = "set_user_points"
    /\ tr.tile.match_edge # <<>>
    /\ tr.tile.tile_id \in DOMAIN tiles
    /\ tiles[tr.tile.tile_id] # tr.tile

\* C7 as stated: a row whose match_id is not the empty string and not in the
\* store fails at that row: the run ends with an error and the store is as
\* it was
C7_UnknownReference ==
    [][(/\ RowStep
        /\ tr'.tile.match_id # 0
        /\ tr'.tile.match_id \notin DOMAIN tiles)
       => (/\ err' # "none"
           /\ pc' = "aborted"
           /\ StoreUnchanged)]_vars

\* C8 as stated: the tile inserted first, and no other, has no match reference
C8_SingleRoot ==
    \A id \in DOMAIN tiles : (tiles[id].match_edge = <<>>) <=> (id = order[1])

\* C9: a row matched on an edge of length zero of a tile of the store ends
\* the run with the error of get_angle: the new tile gets no vertices and
\* the store is as it was
C9_DegenerateEdge ==
    [][(/\ RowStep
        /\ tr'.tile.match_edge # <<>>
        /\ tr'.tile.match_id \in DOMAIN tiles
        /\ EdgeLength(tiles[tr'.tile.match_id].chirality,
               index(EDGES[tiles[tr'.tile.match_id].chirality], tr'.tile.match_edge))
             = <<0, 0>>)
       => (/\ err' = "ValueError"
           /\ pc' = "aborted"
           /\ tr'.call = "raised"
           /\ tr'.tile.user_points = <<>>
           /\ StoreUnchanged)]_vars

\* a run of the comet ended by a row matched on a height edge
C9_DegenerateEdgeWitness ==
    /\ err = "ValueError"
    /\ pc = "aborted"
    /\ tr.call = "raised"
    /\ tr.tile.match_edge # <<>>
    /\ tr.tile.match_id \in DOMAIN tiles
    /\ tile_param2 = <<0, 0>>
    /\ At(MOVES[tiles[tr.tile.match_id].chirality],
          index(EDGES[tiles[tr.tile.match_id].chirality], tr.tile.match_edge)).d = "HH"

-----------------------------------------------------------------------------
(* SpecTrace: single calls of the tracing loop of set_user_points *)

\* the hat, the turtle, Tile(1, 1), the comet, the chevron, and Tile(2, 2)
\* at scaling 0.0001
TraceConfigs == { Config(Len1, LenR3, 0, SCALING_ONE),
                  Config(LenR3, Len1, 0, SCALING_ONE),
                  Config(Len1, Len1, 0, SCALING_ONE),
                  Config(Len1, Len0, 0, SCALING_ONE),
                  Config(Len0, Len1, 0, SCALING_ONE),
                  Config(Len2, Len2, 0, SCALING_SMALL) }

\* anchor points on the grid
Anchors == { <<0, 0>>, <<1500000, -866025>> }

\* all headings that are multiples of 30 degrees
Headings == 0..11

Dists == dists(tile_param1, tile_param2)

InitTrace ==
    /\ \E cfg \in TraceConfigs : NewAllTiles(cfg)
    /\ pc = "trace"
    /\ err = "none"
    /\ \E chirality \in {"L", "R"}, start_edge \in EdgeNames,
          curr_pt \in Anchors, k \in Headings :
          tr = [call       |-> "none",
                chirality  |-> chirality,
                start_edge |-> start_edge,
                curr_pt    |-> curr_pt,
                curr_angle |-> k,
                out        |-> <<>>]
    /\ file = <<>>
    /\ NoWindow
    /\ tables = SharedTables

\* the trace of the tile from its start edge, anchor and angle
CallTrace ==
    /\ pc = "trace" /\ tr.call = "none"
    /\ tr' = [tr EXCEPT !.call = "trace",
                        !.out = TraceFrom(tr.chirality, tr.start_edge, tr.curr_pt,
                                    Angle(<<1, 0>>, tr.curr_angle), Dists, scaling)]
    /\ UNCHANGED <<tile_param1, tile_param2, first_tile_angle, scaling, tiles,
                   unit, order, pc, err>>
    /\ UNCHANGED <<left_x, bottom_y, right_x, top_y, file, dw, screen>>
    /\ tables' = build_move_list(tables, tr.chirality, tr.start_edge)

\* the trace from start edge 0, and the trace from the start edge anchored at
\* the vertex before it in the first trace, along the heading of that edge
CallRestart ==
    /\ pc = "trace" /\ tr.call = "none"
    /\ LET chirality == tr.chirality
           s     == index(EDGES[chirality], tr.start_edge)
           base  == TraceFrom(chirality, At(EDGES[chirality], 0), tr.curr_pt,
                        Angle(<<1, 0>>, tr.curr_angle), Dists, scaling)
           upto  == TraceLoop(PySliceTo(MOVES[chirality], s), 1, tr.curr_pt,
                        tr.curr_angle, Dists, scaling, <<>>)
           again == TraceFrom(chirality, tr.start_edge,
                        At(base.user_points, (s - 1) % 13),
                        Angle(<<1, 0>>, upto.curr_angle), Dists, scaling)
       IN tr' = [tr EXCEPT !.call = "restart",
                           !.out = [base  |-> base.user_points,
                                    again |-> again.user_points]]
    /\ UNCHANGED <<tile_param1, tile_param2, first_tile_angle, scaling, tiles,
                   unit, order, pc, err>>
    /\ UNCHANGED <<left_x, bottom_y, right_x, top_y, file, dw, screen>>
    /\ tables' = build_move_list(
                     build_move_list(tables, tr.chirality, At(EDGES[tr.chirality], 0)),
                     tr.chirality, tr.start_edge)

\* the traces of both chiralities from the same start index, anchor and angle
CallMirror ==
    /\ pc = "trace" /\ tr.call = "none"
    /\ LET s == index(EDGES[tr.chirality], tr.start_edge)
           t(c) == TraceFrom(c, At(EDGES[c], s), tr.curr_pt,
                       Angle(<<1, 0>>, tr.curr_angle), Dists, scaling).user_points
       IN tr' = [tr EXCEPT !.call = "mirror",
                           !.out = [L |-> t("L"), R |-> t("R")]]
    /\ UNCHANGED <<tile_param1, tile_param2, first_tile_angle, scaling, tiles,
                   unit, order, pc, err>>
    /\ UNCHANGED <<left_x, bottom_y, right_x, top_y, file, dw, screen>>
    /\ tables' = LET s == index(EDGES[tr.chirality], tr.start_edge)
                  IN build_move_list(build_move_list(tables, "L", At(EDGES["L"], s)),
                                     "R", At(EDGES["R"], s))

NextTrace == CallTrace \/ CallRestart \/ CallMirror

SpecTrace == InitTrace /\ [][NextTrace]_vars

-----------------------------------------------------------------------------
(* SpecAlign: a store is loaded and aligned with a reference segment, as in *)
(* hatlike.py, at scaling 0.0001                                            *)

\* Tile(2, 2), first tile along the x axis and turned by 30 degrees
AlignConfigs == { Config(Len2, Len2, 0, SCALING_SMALL),
                  Config(Len2, Len2, 1, SCALING_SMALL) }

\* end points of the reference segment: landmarks of the reference tiling
RefPoints == { <<0, 0>>, <<0, 120>>, <<-100, -80>> }

\* the edges whose end points serve as landmarks
LandmarkEdges == { <<"L","P">>, <<"R","S">> }

InitAlign ==
    /\ \E cfg \in AlignConfigs : NewAllTiles(cfg)
    /\ pc = "rows"
    /\ err = "none"
    /\ tr = NoTrace
    /\ file = <<>>
    /\ NoWindow
    /\ tables = SharedTables

\* a row of a chain: each tile is matched on the tile before it
AddChainRow(color, match_edge) ==
    AddRow(Len(order) + 1, color, <<"L","P">>, Len(order),
           IF order = <<>> THEN <<>> ELSE match_edge)

\* all_tiles2.change_coordinates(Segment(pt1o, pt2o), Segment(pt1n, pt2n)):
\* the reference segment, and the segment between two landmarks of the store
ChangeCoordinates(ref_start, ref_stop, id1, edge1, id2, edge2) ==
    /\ pc = "loaded"
    /\ LET new_segment_coords == Segment(ref_start, ref_stop)
           old_segment_coords == Segment(get_pt(id1, edge1), get_pt(id2, edge2))
       IN /\ change_coordinates(new_segment_coords, old_segment_coords)
          /\ tr' = [call               |-> "change_coordinates",
                    new_segment_coords |-> new_segment_coords,
                    old_segment_coords |-> old_segment_coords]
    /\ UNCHANGED <<tile_param1, tile_param2, first_tile_angle, scaling, order>>
    /\ UNCHANGED <<left_x, bottom_y, right_x, top_y, file, dw, screen, tables>>

\* change_coordinates with the segment between two landmarks of one tile of
\* the store as the reference segment and as the current segment
ChangeCoordinatesSame(id, edge1, edge2) ==
    ChangeCoordinates(get_pt(id, edge1), get_pt(id, edge2), id, edge1, id, edge2)

NextAlign ==
    \/ \E color \in RowColors, match_edge \in RowEdges :
          AddChainRow(color, match_edge)
    \/ EndOfFile
    \/ \E ref_start \in RefPoints, ref_stop \in RefPoints,
          id1 \in DOMAIN tiles, id2 \in DOMAIN tiles,
          edge1 \in LandmarkEdges, edge2 \in LandmarkEdges :
          ChangeCoordinates(ref_start, ref_stop, id1, edge1, id2, edge2)
    \/ \E id \in DOMAIN tiles, edge1 \in LandmarkEdges, edge2 \in LandmarkEdges :
          ChangeCoordinatesSame(id, edge1, edge2)

SpecAlign == InitAlign /\ [][NextAlign]_vars

-----------------------------------------------------------------------------
(* SpecWrite: a store is loaded, aligned or not, cropped and written, as in *)
(* hatlike.py                                                                *)

\* the crop values of the calls of set_crop_values, in 1e-6 steps
CropLefts == { None, Some(-150) }

CropBottoms == { None, Some(250) }

CropRights == { None, Some(200) }

CropTops == { None, Some(-120) }

\* the tile_id of the first row of a file whose ids go down from row to row
FirstId == 9

\* a row of a chain: each tile is matched on the tile of the row before it,
\* the tile ids go down
AddDescendingRow(color, match_edge) ==
    AddRow(FirstId - Len(order), color, <<"L","P">>,
           IF order = <<>> THEN 0 ELSE order[Len(order)],
           IF order = <<>> THEN <<>> ELSE match_edge)

\* all_tiles2.set_crop_values(left_x=..., bottom_y=..., right_x=..., top_y=...)
SetCropValues(l, b, r, t) ==
    /\ pc \in {"loaded", "aligned"}
    /\ set_crop_values(l, b, r, t)
    /\ tr' = [call |-> "set_crop_values",
              left_x |-> l, bottom_y |-> b, right_x |-> r, top_y |-> t]
    /\ UNCHANGED <<tile_param1, tile_param2, first_tile_angle, scaling, tiles,
                   unit, order, pc, err, file, dw, screen, tables>>

\* all_tiles2.write_points_to_file(...)
WritePointsToFile ==
    /\ pc \in {"loaded", "aligned"}
    /\ write_points_to_file
    /\ tr' = [call |-> "write_points_to_file"]
    /\ UNCHANGED <<tile_param1, tile_param2, first_tile_angle, scaling, unit,
                   order, left_x, bottom_y, right_x, top_y, dw, screen, tables>>

NextWrite ==
    \/ \E color \in RowColors, match_edge \in RowEdges :
          AddDescendingRow(color, match_edge)
    \/ EndOfFile
    \/ \E id1 \in { id \in DOMAIN tiles : id = order[1] },
          id2 \in DOMAIN tiles, edge2 \in LandmarkEdges :
          ChangeCoordinates(<<0, 0>>, <<0, 120>>, id1, <<"L","P">>, id2, edge2)
    \/ \E l \in CropLefts, b \in CropBottoms, r \in CropRights, t \in CropTops :
          SetCropValues(l, b, r, t)
    \/ WritePointsToFile

SpecWrite == InitAlign /\ [][NextWrite]_vars

-----------------------------------------------------------------------------
(* SpecRewrite: as SpecWrite, and write_points_to_file is called once more *)
(* on the store it has written                                             *)

\* all_tiles2.write_points_to_file(...) on a store that was written
WritePointsToFileAgain ==
    /\ pc = "written"
    /\ tr = [call |-> "write_points_to_file"]
    /\ write_points_to_file
    /\ tr' = [call |-> "write_points_to_file", again |-> TRUE]
    /\ UNCHANGED <<tile_param1, tile_param2, first_tile_angle, scaling, unit,
                   order, left_x, bottom_y, right_x, top_y, dw, screen, tables>>

NextRewrite ==
    \/ NextWrite
    \/ WritePointsToFileAgain

SpecRewrite == InitAlign /\ [][NextRewrite]_vars

-----------------------------------------------------------------------------
(* SpecPad: a store that also holds tiles of fewer vertices is written *)

\* the vertex counts of the tiles handed to add_hat after the file is read
ShortLens == { 3, 6 }

\* all_tiles.add_hat(tile) for a tile of another shape: a tile placed as a
\* first tile whose user_points are its first n vertices; add_hat looks at
\* the tile_id only
AddHatShort(color, n) ==
    /\ pc = "loaded"
    /\ Len(order) <= MaxRows
    /\ LET h    == HatFamilyTile(All, FirstId - Len(order), <<"L","P">>, color, <<>>, 0)
           tile == [h.tile EXCEPT !.user_points = SubSeq(@, 1, n)]
       IN /\ add_hat(tile)
          /\ tr' = [call |-> "add_hat", tile |-> tile]
    /\ UNCHANGED <<tile_param1, tile_param2, first_tile_angle, scaling, unit>>
    /\ UNCHANGED <<left_x, bottom_y, right_x, top_y, file, dw, screen>>
    /\ tables' = build_move_list(tables, chiralities[color], <<"L","P">>)

NextPad ==
    \/ \E color \in RowColors, match_edge \in RowEdges :
          AddDescendingRow(color, match_edge)
    \/ EndOfFile
    \/ \E color \in RowColors, n \in ShortLens : AddHatShort(color, n)
    \/ WritePointsToFile

SpecPad == InitAlign /\ [][NextPad]_vars

-----------------------------------------------------------------------------
(* SpecHat: add_all_tiles of hat.py reads a configuration file row by row *)

\* the match_rev column: '', 'N' and a value that is neither
MatchRevs == { "", "N", "Y" }

\* the module of hat.py is loaded: TILES is empty.  tile_param1, tile_param2
\* and scaling hold DISTS in half sides (see Hat_DISTS)
InitHat ==
    /\ NewAllTiles(Config(Len1, LenR3, 0, HAT_SCALING \div 2))
    /\ pc = "rows"
    /\ err = "none"
    /\ tr = NoTrace
    /\ file = <<>>
    /\ NoWindow
    /\ tables = SharedTables

\* one turn of the loop of add_all_tiles of hat.py: self.add_hat(Hat(...row...));
\* tr keeps the tile under construction and the match_rev of the row
AddHatRow(hat_id, chirality, start_edge, match_id, match_edge, match_rev) ==
    /\ pc = "rows"
    /\ Len(order) < MaxRows
    /\ LET h == Hat(tiles, hat_id, chirality, start_edge, match_edge, match_id, match_rev)
       IN IF h.raised # "none"
          THEN /\ err' = h.raised
               /\ pc' = "aborted"
               /\ tr' = [call |-> "raised", tile |-> h.tile, match_rev |-> match_rev]
               /\ UNCHANGED <<tiles, order>>
          ELSE /\ tr' = [call       |-> "set_user_points",
                         tile       |-> h.tile,
                         match_rev  |-> match_rev,
                         curr_pt    |-> h.curr_pt,
                         curr_angle |-> h.curr_angle]
               /\ add_hat(h.tile)
    /\ UNCHANGED <<tile_param1, tile_param2, first_tile_angle, scaling, unit>>
    /\ UNCHANGED <<left_x, bottom_y, right_x, top_y, file, dw, screen>>
    /\ tables' = IF Hat(tiles, hat_id, chirality, start_edge, match_edge, match_id,
                         match_rev).raised # "none"
                  THEN tables
                  ELSE build_move_list(tables, chirality, start_edge)

NextHat ==
    \/ \E hat_id \in RowIds, chirality \in {"L", "R"}, start_edge \in RowStartEdges,
          match_id \in MatchIds, match_edge \in RowStartEdges \cup {<<>>},
          match_rev \in MatchRevs :
          AddHatRow(hat_id, chirality, start_edge, match_id, match_edge, match_rev)
    \/ EndOfFile

SpecHat == InitHat /\ [][NextHat]_vars

-----------------------------------------------------------------------------
(* SpecProgress: show_progress.py reads messages from the FIFO while its *)
(* window is resized and redrawn                                         *)

\* the greatest denominator and numerator of a message
MaxDenom == 2

\* the tile file: the triangle of the far corner, an inner square and the
\* triangle at the origin of an image of width 4 and height 4
TILE_FILE ==
    [img_width  |-> 4,
     img_height |-> 4,
     tiles      |-> << << <<4, 2>>, <<4, 4>>, <<2, 4>> >>,
                       << <<1, 1>>, <<3, 1>>, <<3, 3>>, <<1, 3>> >>,
                       << <<0, 0>>, <<2, 0>>, <<0, 2>> >> >>]

\* the sizes the drawing area is resized to: the whole image, a strip
WindowSizes == { <<4, 4>>, <<1, 4>> }

\* the variables of the tile store, which show_progress.py does not have
storeVars == <<tile_param1, tile_param2, first_tile_angle, scaling, tiles, unit,
               order, left_x, bottom_y, right_x, top_y, file, tables>>

\* MainWindow.__init__ and on_activate: the tiles are loaded, the change
\* order is shuffled, complete_resize runs with get_width() and get_height()
\* of the window, 0 and 0 before it is shown, and the window is presented
InitProgress ==
    /\ NewAllTiles(Config(Len1, LenR3, 0, SCALING_ONE))
    /\ file = <<>>
    /\ pc = "running"
    /\ err = "none"
    /\ tr = NoTrace
    /\ \E tmp_list \in Shuffles(Len(TILE_FILE.tiles)) :
          dw = complete_resize(reset_change_order(TileDrawingArea(TILE_FILE), tmp_list),
                               0, 0).dw
    /\ screen = [queued |-> TRUE, drawn |-> [i \in DOMAIN TILE_FILE.tiles |-> "none"]]
    /\ tables = <<>>

\* on_fifo_data with a message 'R' (digits = <<>>) or 'R<d>' (digits = <<d>>);
\* tmp_list and full_pad_list are the two shuffled lists, d3 is the area
\* when set_change_nums is called and r what the call returns
OnFifoReset(digits, tmp_list, full_pad_list) ==
    /\ pc = "running"
    /\ \E d3 \in { [reset_change_order(IF digits # <<>>
                                       THEN [dw EXCEPT !.denom = digits[1]]
                                       ELSE dw,
                                       tmp_list)
                       EXCEPT !.full_pad_list = full_pad_list] } :
       \E r \in { set_change_nums(d3, BORDER_FIRST) } :
          /\ full_pad_list \in Shuffles(d3.denom)
          /\ IF r.raised # "none"
             THEN /\ dw' = d3
                  /\ err' = r.raised
                  /\ UNCHANGED screen
             ELSE /\ dw' = set_numerator(r.dw, r.dw.denom)
                  /\ screen' = queue_draw(screen)
                  /\ UNCHANGED err
    /\ tr' = [call |-> "on_fifo_data", reset |-> TRUE, digits |-> digits]
    /\ UNCHANGED storeVars
    /\ UNCHANGED pc

\* on_fifo_data with a message that is a number
OnFifoNumerator(num) ==
    /\ pc = "running"
    /\ dw' = set_numerator(dw, num)
    /\ screen' = queue_draw(screen)
    /\ tr' = [call |-> "on_fifo_data", reset |-> FALSE, digits |-> <<num>>]
    /\ UNCHANGED storeVars
    /\ UNCHANGED <<pc, err>>

\* on_resize
OnResize(width, height) ==
    /\ pc = "running"
    /\ dw' = on_resize(dw, width, height)
    /\ screen' = queue_draw(screen)
    /\ UNCHANGED storeVars
    /\ UNCHANGED <<pc, err, tr>>

\* on_window_active_changed when the window is no longer active and a
\* resize is pending
OnWindowActiveChanged ==
    /\ pc = "running"
    /\ dw.pending_dimensions # None
    /\ LET r == complete_resize(dw, dw.pending_dimensions[1], dw.pending_dimensions[2])
       IN IF r.raised # "none"
          THEN /\ dw' = r.dw
               /\ err' = r.raised
               /\ UNCHANGED screen
          ELSE /\ dw' = [r.dw EXCEPT !.pending_dimensions = None]
               /\ screen' = queue_draw(screen)
               /\ UNCHANGED err
    /\ UNCHANGED storeVars
    /\ UNCHANGED <<pc, tr>>

\* on_draw, after queue_draw: every tile is drawn once
OnDraw ==
    /\ pc = "running"
    /\ screen.queued
    /\ screen' = [queued |-> FALSE,
                  drawn  |-> [i \in DOMAIN dw.tiles |-> draw(dw.tiles[i], dw.num)]]
    /\ UNCHANGED storeVars
    /\ UNCHANGED <<pc, err, tr, dw>>

NextProgress ==
    \/ \E digits \in {<<>>} \cup { <<d>> : d \in 1..MaxDenom },
          tmp_list \in Shuffles(Len(TILE_FILE.tiles)) :
          \E full_pad_list \in Shuffles(IF digits # <<>> THEN digits[1] ELSE dw.denom) :
             OnFifoReset(digits, tmp_list, full_pad_list)
    \/ \E num \in 0..MaxDenom : OnFifoNumerator(num)
    \/ \E size \in WindowSizes : OnResize(size[1], size[2])
    \/ OnWindowActiveChanged
    \/ OnDraw

SpecProgress == InitProgress /\ [][NextProgress]_vars

-----------------------------------------------------------------------------
(* SpecDenom: show_progress.py with a file of two tiles and denominators *)
(* below, at and above the number of tiles                               *)

\* the tile file: the triangle of the far corner and the triangle at the
\* origin of an image of width 4 and height 4
TILE_FILE_TWO ==
    [img_width  |-> 4,
     img_height |-> 4,
     tiles      |-> << << <<4, 2>>, <<4, 4>>, <<2, 4>> >>,
                       << <<0, 0>>, <<2, 0>>, <<0, 2>> >> >>]

\* the denominators and numerators of the messages
WideDenoms == 1..(MaxDenom + 1)

\* MainWindow.__init__ and on_activate with the file of two tiles
InitDenom ==
    /\ NewAllTiles(Config(Len1, LenR3, 0, SCALING_ONE))
    /\ file = <<>>
    /\ pc = "running"
    /\ err = "none"
    /\ tr = NoTrace
    /\ \E tmp_list \in Shuffles(Len(TILE_FILE_TWO.tiles)) :
          dw = complete_resize(reset_change_order(TileDrawingArea(TILE_FILE_TWO), tmp_list),
                               0, 0).dw
    /\ screen = [queued |-> TRUE, drawn |-> [i \in DOMAIN TILE_FILE_TWO.tiles |-> "none"]]
    /\ tables = <<>>

NextDenom ==
    \/ \E digits \in {<<>>} \cup { <<d>> : d \in WideDenoms },
          tmp_list \in Shuffles(Len(dw.tiles)) :
          \E full_pad_list \in Shuffles(IF digits # <<>> THEN digits[1] ELSE dw.denom) :
             OnFifoReset(digits, tmp_list, full_pad_list)
    \/ \E num \in {0} \cup WideDenoms : OnFifoNumerator(num)
    \/ \E size \in WindowSizes : OnResize(size[1], size[2])
    \/ OnWindowActiveChanged
    \/ OnDraw

SpecDenom == InitDenom /\ [][NextDenom]_vars

-----------------------------------------------------------------------------
(* SpecAngle: get_angle applied to two points *)

\* the parts of a 1e-6 step that a coordinate of the two points counts
SubSteps == 2

\* coordinates of the two points: far and near on both sides, and 0
AngleCoords == { -300, -1, 0, 1, 300 }

InitAngle ==
    /\ NewAllTiles(Config(Len1, LenR3, 0, SCALING_ONE))
    /\ pc = "angle"
    /\ err = "none"
    /\ \E sx \in AngleCoords, sy \in AngleCoords, ex \in AngleCoords, ey \in AngleCoords :
          tr = [call |-> "none", start |-> <<sx, sy>>, end |-> <<ex, ey>>]
    /\ file = <<>>
    /\ NoWindow
    /\ tables = SharedTables

\* get_angle(start, end)
CallGetAngle ==
    /\ pc = "angle" /\ tr.call = "none"
    /\ LET a == get_angle_at(tr.start, tr.end, SubSteps)
       IN /\ tr' = [call |-> "get_angle", start |-> tr.start, end |-> tr.end, out |-> a]
          /\ err' = a.raised
    /\ UNCHANGED <<storeVars, pc, dw, screen>>

NextAngle == CallGetAngle

SpecAngle == InitAngle /\ [][NextAngle]_vars

-----------------------------------------------------------------------------
(* Properties of the alignment (SpecAlign) *)

Minus(p, q) == <<p[1] - q[1], p[2] - q[2]>>

Times(c, p) == <<c * p[1], c * p[2]>>

C11_AlignmentNoOp ==
    [][(/\ pc = "loaded"
        /\ pc' = "aligned"
        /\ tr'.new_segment_coords = tr'.old_segment_coords)
       => (/\ DOMAIN tiles' = DOMAIN tiles
           /\ order' = order
           /\ \A id \in DOMAIN tiles : \A i \in 1..13 :
                 tiles'[id].user_points[i] = Times(unit', tiles[id].user_points[i]))]_vars

\* a store of two tiles aligned with the segment between two landmarks of
\* its second tile, which does not start at the origin
C11_AlignmentNoOpWitness ==
    /\ pc = "aligned"
    /\ Len(order) = 2
    /\ unit > 1
    /\ tr.new_segment_coords = tr.old_segment_coords
    /\ tr.old_segment_coords.stop # <<0, 0>>
    /\ tr.old_segment_coords.stop[1] # tr.old_segment_coords.start[1]
    /\ tr.old_segment_coords.stop[2] # tr.old_segment_coords.start[2]

-----------------------------------------------------------------------------
(* Properties of cropping and output (SpecWrite) *)

\* all vertices of all tiles of the store ts
AllPoints(ts) ==
    UNION { { ts[id].user_points[i] : i \in DOMAIN ts[id].user_points } : id \in DOMAIN ts }

\* the tight bound of the store ts on a side
Tight(ts, side) ==
    IF side = "L" THEN SetMin({ p[1] : p \in AllPoints(ts) })
    ELSE IF side = "R" THEN SetMax({ p[1] : p \in AllPoints(ts) })
    ELSE IF side = "B" THEN SetMax({ p[2] : p \in AllPoints(ts) })
    ELSE SetMin({ p[2] : p \in AllPoints(ts) })

\* the bound of a side: the crop value if there is one, the tight bound if
\* not, in the coordinates of the store ts with denominator u
Bound(crop, ts, u, side) == IF crop # None THEN crop[1] * u ELSE Tight(ts, side)

\* C12: after set_crop_values(l, b, r, t), get_boundaries returns for each
\* side by itself the value of this call if it is not None and the tight
\* bound over all vertices of all tiles if it is None, whatever an earlier
\* call had set; no other call changes what get_boundaries reads
C12_CropBounds ==
    [][/\ (tr'.call = "set_crop_values" /\ DOMAIN tiles # {}) =>
             /\ get_boundaries'.raised = "none"
             /\ get_boundaries'.left_x = Bound(tr'.left_x, tiles, unit, "L")
             /\ get_boundaries'.bottom_y = Bound(tr'.bottom_y, tiles, unit, "B")
             /\ get_boundaries'.right_x = Bound(tr'.right_x, tiles, unit, "R")
             /\ get_boundaries'.top_y = Bound(tr'.top_y, tiles, unit, "T")
       /\ (tr'.call # "set_crop_values") =>
             UNCHANGED <<left_x, bottom_y, right_x, top_y>>]_vars

\* a call that leaves out left_x and top_y on an aligned store of two tiles
C12_CropBoundsWitness ==
    /\ tr.call = "set_crop_values"
    /\ pc = "aligned"
    /\ Len(order) = 2
    /\ tr.left_x = None /\ tr.top_y = None
    /\ tr.right_x # None /\ tr.bottom_y # None
    /\ get_boundaries.left_x = Tight(tiles, "L")
    /\ get_boundaries.right_x # Tight(tiles, "R")

\* the tab-separated fields of a line: what stands between the separators
Fields(line) ==
    LET seps == { i \in 1..Len(line) : line[i].k = "sep" }
        at(n) == { i \in 1..Len(line) :
                     /\ line[i].k # "sep"
                     /\ Cardinality({ j \in seps : j < i }) = n - 1 }
    IN [n \in 1..(Cardinality(seps) + 1) |->
           [m \in 1..Cardinality(at(n)) |-> line[SetMin(at(n)) + m - 1]]]

\* C13: write_points_to_file moves every vertex of every tile by
\* (-left, -top), (left, bottom, right, top) being the bounds of the store
\* before the move (crop value or tight bound), and every row of the file
\* has img_width = right - left and img_height = bottom - top; without crop
\* values the least x and the least y of the moved store are 0
C13_Normalization ==
    [][(tr'.call = "write_points_to_file" /\ pc' = "written") =>
          LET left   == Bound(left_x, tiles, unit, "L")
              bottom == Bound(bottom_y, tiles, unit, "B")
              right  == Bound(right_x, tiles, unit, "R")
              top    == Bound(top_y, tiles, unit, "T")
          IN /\ DOMAIN tiles' = DOMAIN tiles
             /\ \A id \in DOMAIN tiles : \A i \in DOMAIN tiles[id].user_points :
                   tiles'[id].user_points[i] =
                       Minus(tiles[id].user_points[i], <<left, top>>)
             /\ \A k \in 2..Len(file') :
                   /\ Fields(file'[k])[7] = <<Format6(right - left, unit)>>
                   /\ Fields(file'[k])[8] = <<Format6(bottom - top, unit)>>
             /\ left_x = None => Tight(tiles', "L") = 0
             /\ top_y = None => Tight(tiles', "T") = 0]_vars

\* an aligned store of two tiles written with crop values on the left and
\* at the top that are not the tight bounds
C13_NormalizationWitness ==
    /\ pc = "written"
    /\ tr.call = "write_points_to_file"
    /\ Len(order) = 2
    /\ unit > 1
    /\ left_x # None /\ top_y # None /\ right_x = None
    /\ Tight(tiles, "L") # 0
    /\ Tight(tiles, "T") # 0
    /\ Len(file) = 3

\* C14: the file has one row per tile of the store; row k (from 0) has the
\* vertices of the k-th tile added (the tile with id FirstId - k), point by
\* point, and the seq_id k
C14_SerializationOrder ==
    pc = "written" =>
       /\ Len(file) = 1 + Cardinality(DOMAIN tiles)
       /\ \A k \in 0..(Len(file) - 2) :
             LET row  == Fields(file[k + 2])
                 tile == tiles[FirstId - k]
             IN /\ row[1] = <<IntText(k)>>
                /\ \A i \in 1..Len(tile.user_points) :
                      /\ row[7 + 2 * i] = <<Format6(tile.user_points[i][1], unit)>>
                      /\ row[8 + 2 * i] = <<Format6(tile.user_points[i][2], unit)>>

\* a written store of two tiles, whose ids are not the row numbers and go
\* down in the order of insertion
C14_SerializationOrderWitness ==
    /\ pc = "written"
    /\ order = <<FirstId, FirstId - 1>>
    /\ Len(file) = 3
    /\ Fields(file[3])[1] = <<IntText(1)>>
    /\ tiles[FirstId].user_points # tiles[FirstId - 1].user_points

\* C16: every tile of the store has 13 vertices, after the insertions, after
\* change_coordinates and after the normalization of write_points_to_file;
\* the vertices of the tile a row has just traced, and of the same tile
\* traced from every other start edge, are the 13 traced points rearranged
\* as out[k] = traced[(k - start_pos) mod 13], start_pos = 0 included
C16_VertexArrayShape ==
    /\ \A id \in DOMAIN tiles : Len(tiles[id].user_points) = 13
    /\ tr.call = "set_user_points" =>
          \A start_edge \in EdgeNames :
             LET chirality == tr.tile.chirality
                 start_pos == index(EDGES[chirality], start_edge)
                 traced == TraceLoop(MoveList(chirality, start_pos), 1, tr.curr_pt,
                               tr.curr_angle, Dists, scaling, <<>>).pts
                 out == IF start_edge = tr.tile.start_edge
                        THEN tr.tile.user_points
                        ELSE TraceFrom(chirality, start_edge, tr.curr_pt,
                                 Angle(<<1, 0>>, tr.curr_angle), Dists, scaling).user_points
             IN /\ Len(traced) = 13
                /\ Len(out) = 13
                /\ \A k \in 0..12 : At(out, k) = At(traced, (k - start_pos) % 13)

\* a store of a tile traced from start_pos = 0 and a tile traced from another
\* start_pos, aligned and written
C16_VertexArrayShapeWitness ==
    /\ pc = "written"
    /\ unit > 1
    /\ Len(order) = 2
    /\ index(EDGES[tiles[order[1]].chirality], tiles[order[1]].start_edge) = 0
    /\ index(EDGES[tiles[order[2]].chirality], tiles[order[2]].start_edge) # 0
    /\ \A id \in DOMAIN tiles : Len(tiles[id].user_points) = 13

-----------------------------------------------------------------------------
(* Properties of the padding (SpecPad) *)

\* C15: with N the greatest vertex count of the tiles, the header and every
\* row of the file have 8 + 2N tab-separated fields, and in the row of a
\* tile of n < N vertices the fields after its 2n coordinates are empty
C15_RowWidth ==
    pc = "written" =>
       LET N == SetMax({ Len(tiles[id].user_points) : id \in DOMAIN tiles })
       IN /\ Len(Fields(file[1])) = 8 + 2 * N
          /\ \A k \in 1..Len(order) :
                LET row == Fields(file[k + 1])
                    n   == Len(tiles[order[k]].user_points)
                IN /\ Len(row) = 8 + 2 * N
                   /\ \A j \in (8 + 2 * n + 1)..(8 + 2 * N) : row[j] = <<>>

-----------------------------------------------------------------------------
(* Properties of the edge references (Spec) *)

\* the tile the last row has traced and added to the store
JustAdded ==
    /\ tr.call = "set_user_points"
    /\ tr.tile.tile_id \in DOMAIN tiles
    /\ tiles[tr.tile.tile_id] = tr.tile

\* the moves of the trace of the tile of the last row, in the order they are
\* made, and the points they reach
LastMoves ==
    MoveList(tr.tile.chirality, index(EDGES[tr.tile.chirality], tr.tile.start_edge))

LastTraced ==
    TraceLoop(LastMoves, 1, tr.curr_pt, tr.curr_angle, Dists, scaling, <<>>).pts

\* the edge that the j-th move of that trace draws
EdgeOfMove(j) ==
    At(EDGES[tr.tile.chirality],
       (index(EDGES[tr.tile.chirality], tr.tile.start_edge) + j - 1) % 13)

\* the point the j-th move starts from
StartOfMove(j) == IF j = 1 THEN tr.curr_pt ELSE LastTraced[j - 1]

-----------------------------------------------------------------------------
(* The first tile of the hat (Spec) *)

\* the first tiles of chirality L of the hat tiling with p1 = 1,
\* p2 = sqrt(3), scaling 1 and angle 0, traced from the edge of index 0
GoldenTiles ==
    IF /\ tile_param1 = Len1 /\ tile_param2 = LenR3
       /\ first_tile_angle = 0 /\ scaling = SCALING_ONE
    THEN { id \in DOMAIN tiles :
             /\ tiles[id].match_edge = <<>>
             /\ tiles[id].chirality = "L"
             /\ tiles[id].start_edge = At(LEFT_EDGES, 0) }
    ELSE {}

\* C18 as claimed: vertex 0 is (1, 0) and vertex 1 is (1.5, +0.866025)
C18_GoldenPositive ==
    \A id \in GoldenTiles :
       /\ At(tiles[id].user_points, 0) = <<SCALING_ONE, 0>>
       /\ At(tiles[id].user_points, 1) = <<(3 * SCALING_ONE) \div 2, SQRT3_HALF_HI>>

\* C18: vertex 0 is (1, 0) and vertex 1 is (1.5, -0.866025): the turn 'L'
\* takes 60 degrees off the angle, so the second half-side move goes towards
\* negative y
C18_Golden ==
    \A id \in GoldenTiles :
       /\ At(tiles[id].user_points, 0) = <<SCALING_ONE, 0>>
       /\ At(tiles[id].user_points, 1) = <<(3 * SCALING_ONE) \div 2, -SQRT3_HALF_HI>>

\* the first tile of the hat is in the store
C18_GoldenWitness ==
    /\ GoldenTiles # {}
    /\ order # <<>>
    /\ order[1] \in GoldenTiles
    /\ _FIRST_TILE_W = 0 /\ _FIRST_TILE_H = 0

-----------------------------------------------------------------------------
(* Properties of the match_rev column (SpecHat) *)

\* C19: a row of hat.py whose match_rev is neither '' nor 'N', or whose tile
\* is matched (match_edge is not empty) on a tile of the store with match_rev
\* true ('') and the other chirality or with match_rev false ('N') and the
\* same chirality, is rejected with an error; no vertex of its tile is
\* computed and the store is as it was
C19_MatchRev ==
    [][RowStep =>
          LET t == tr'.tile
              invalid == tr'.match_rev \notin {"", "N"}
              mismatch ==
                  /\ t.match_edge # <<>>
                  /\ t.match_id \in DOMAIN tiles
                  /\ (tr'.match_rev = "") # (t.chirality = tiles[t.match_id].chirality)
          IN (invalid \/ mismatch) =>
                /\ err' # "none"
                /\ pc' = "aborted"
                /\ t.user_points = <<>>
                /\ StoreUnchanged]_vars

\* a row with match_rev 'N' matched on a tile of the same chirality has
\* ended the run
C19_MatchRevWitness ==
    /\ pc = "aborted"
    /\ tr.call = "raised"
    /\ Len(order) = 1
    /\ tr.tile.match_edge # <<>>
    /\ tr.tile.match_id \in DOMAIN tiles
    /\ tr.match_rev = "N"
    /\ tr.tile.chirality = tiles[tr.tile.match_id].chirality
    /\ tr.tile.tile_id \notin DOMAIN tiles
    /\ err = "ValueError_chirality_match_rev_mismatch"

-----------------------------------------------------------------------------
(* Properties of the progress display (SpecProgress) *)

\* the last message was 'R<d>' with d >= 1
AfterReset ==
    /\ tr.call = "on_fifo_data"
    /\ tr.reset
    /\ tr.digits # <<>>
    /\ tr.digits[1] >= 1

\* C20: from a message 'R<d>' with d >= 1 to the next message the numerator
\* is d and every tile is in its 'start' state; whenever the numerator is 0
\* every tile whose tile_in is not OUT is in its 'done' state; and once the
\* queued redraw has run, that state is the one the tile was drawn in;
\* whatever messages, resizes and redraws came before
C20_ProgressEndpoints ==
    pc = "running" =>
       /\ AfterReset =>
             /\ dw.num = tr.digits[1]
             /\ \A i \in DOMAIN dw.tiles : draw(dw.tiles[i], dw.num) = "start"
       /\ dw.num = 0 =>
             \A i \in DOMAIN dw.tiles :
                dw.tiles[i].tile_in # "OUT" => draw(dw.tiles[i], dw.num) = "done"
       /\ ~screen.queued =>
             \A i \in DOMAIN dw.tiles : screen.drawn[i] = draw(dw.tiles[i], dw.num)
       /\ err = "none"

\* numerator 0 on the screen after a reset to 2 and a completed resize: the
\* tiles of the area are drawn 'done', a tile outside it is not
C20_ProgressEndpointsWitness ==
    /\ pc = "running"
    /\ ~screen.queued
    /\ dw.num = 0
    /\ dw.denom = 2
    /\ dw.pending_dimensions = None
    /\ \E i \in DOMAIN dw.tiles :
          dw.tiles[i].tile_in = "OUT" /\ screen.drawn[i] = "start"
    /\ \E i \in DOMAIN dw.tiles :
          dw.tiles[i].tile_in = "BORDER" /\ screen.drawn[i] = "done"

\* the group set_change_nums sorts a tile into (sort_cat with border_first)
SortCat(tile) ==
    IF tile.tile_in = "OUT" THEN 2 ELSE IF tile.on_border THEN 0 ELSE 1

\* C22: with border_first, whenever set_change_nums has run, a tile that is
\* on the border has a change_num that is at least that of every visible
\* tile that is not on the border, and of two tiles of the same group the
\* one with the higher change_order never has the lower change_num
C22_BorderFirst ==
    pc = "running" =>
       \A i, j \in DOMAIN dw.tiles :
          /\ (/\ dw.tiles[i].on_border
              /\ ~dw.tiles[j].on_border
              /\ dw.tiles[j].tile_in # "OUT")
                => dw.tiles[i].change_num >= dw.tiles[j].change_num
          /\ (/\ SortCat(dw.tiles[i]) = SortCat(dw.tiles[j])
              /\ dw.tiles[i].change_order > dw.tiles[j].change_order)
                => dw.tiles[i].change_num >= dw.tiles[j].change_num

\* the whole image is shown and the denominator is 2: the inner square, not
\* on the border, has the highest change_order and yet a lower change_num
\* than the two corner triangles, which differ in change_num as in
\* change_order
C22_BorderFirstWitness ==
    /\ pc = "running"
    /\ dw.denom = 2
    /\ dw.pending_dimensions = None
    /\ \E i, j, k \in DOMAIN dw.tiles :
          /\ dw.tiles[i].on_border /\ dw.tiles[j].on_border
          /\ dw.tiles[k].tile_in = "IN" /\ ~dw.tiles[k].on_border
          /\ dw.tiles[k].change_order > dw.tiles[i].change_order
          /\ dw.tiles[i].change_order > dw.tiles[j].change_order
          /\ dw.tiles[i].change_num > dw.tiles[j].change_num
          /\ dw.tiles[j].change_num >= dw.tiles[k].change_num

-----------------------------------------------------------------------------
(* Properties of the change numbers (SpecDenom) *)

\* the number of tiles that are not outside the drawing area
NVisible == Cardinality({ i \in DOMAIN dw.tiles : dw.tiles[i].tile_in # "OUT" })

\* C21: in every state reached by reset, numerator, resize and redraw
\* events, the first state included, get_change_num_list returns as many
\* values as there are tiles and set_change_nums has not raised its
\* ValueError, for denominators below, at and above the number of tiles
C21_DenominatorIndependence ==
    pc = "running" =>
       /\ Len(get_change_num_list(dw)) = Len(dw.tiles)
       /\ err = "none"

\* after a reset to a denominator above the number of tiles and a
\* completed resize to the strip, one of the two tiles is visible and the
\* list has two values
C21_DenominatorIndependenceWitness ==
    /\ pc = "running"
    /\ err = "none"
    /\ dw.denom > Len(dw.tiles)
    /\ Len(dw.full_pad_list) = dw.denom
    /\ dw.pending_dimensions = None
    /\ NVisible = 1
    /\ \E i \in DOMAIN dw.tiles : dw.tiles[i].den = 4 /\ dw.tiles[i].change_num >= 0
    /\ Len(get_change_num_list(dw)) = 2

\* the number of visible tiles whose change_num is x
Held(x) ==
    Cardinality({ i \in DOMAIN dw.tiles :
                    dw.tiles[i].tile_in # "OUT" /\ dw.tiles[i].change_num = x })

-----------------------------------------------------------------------------
(* Properties of the resize (SpecProgress) *)

\* tile_in, on_border and change_num of the tiles
Placement(d) ==
    [i \in DOMAIN d.tiles |->
        <<d.tiles[i].tile_in, d.tiles[i].on_border, d.tiles[i].change_num>>]

\* tile_in and on_border of a tile in an area of the given size
PlacedIn(tile, img_width, img_height, w, h) ==
    LET t1 == set_device_points(tile, img_width, img_height, w, h)
        t2 == set_tile_in(t1, w, h)
        t3 == set_on_border(t2, w, h)
    IN <<t3.tile_in, t3.on_border>>

\* a step of on_fifo_data with a message that starts with R
ResetStep ==
    \E digits \in {<<>>} \cup { <<d>> : d \in 1..MaxDenom },
       tmp_list \in Shuffles(Len(dw.tiles)) :
       \E full_pad_list \in Shuffles(IF digits # <<>> THEN digits[1] ELSE dw.denom) :
          OnFifoReset(digits, tmp_list, full_pad_list)

\* C23 as stated: from a resize event until the window next becomes
\* inactive tile_in, on_border and change_num of every tile stay unchanged
C23_DeferredResizeFrozen ==
    [][(/\ pc = "running"
        /\ dw.pending_dimensions # None
        /\ dw'.pending_dimensions # None)
          => Placement(dw') = Placement(dw)]_vars

\* C23: a resize event records its size in pending_dimensions and scales
\* the device points to it, and leaves tile_in, on_border and change_num
\* of every tile as they were; when the window becomes inactive with a
\* pending resize, tile_in and on_border of every tile are those of the
\* pending size, the device points are scaled to it and
\* pending_dimensions is None again; in every other step, a resize pending
\* or not, tile_in and on_border of no tile change and change_num changes
\* only by a reset message
C23_DeferredResize ==
    [][pc = "running" =>
         /\ \A size \in WindowSizes :
               OnResize(size[1], size[2]) =>
                  /\ dw'.pending_dimensions = size
                  /\ Placement(dw') = Placement(dw)
                  /\ \A i \in DOMAIN dw.tiles :
                        LET t == set_device_points(dw.tiles[i], dw.img_width,
                                                   dw.img_height, size[1], size[2])
                        IN /\ dw'.tiles[i].device_points = t.device_points
                           /\ dw'.tiles[i].den = t.den
                  /\ dw'.denom = dw.denom /\ dw'.num = dw.num
         /\ OnWindowActiveChanged =>
               /\ dw'.pending_dimensions = None
               /\ \A i \in DOMAIN dw.tiles :
                     LET size == dw.pending_dimensions
                         t == set_device_points(dw.tiles[i], dw.img_width,
                                                dw.img_height, size[1], size[2])
                     IN /\ <<dw'.tiles[i].tile_in, dw'.tiles[i].on_border>> =
                              PlacedIn(dw.tiles[i], dw.img_width, dw.img_height,
                                       size[1], size[2])
                        /\ dw'.tiles[i].device_points = t.device_points
                        /\ dw'.tiles[i].den = t.den
         /\ ~(dw.pending_dimensions # None /\ dw'.pending_dimensions = None) =>
               /\ \A i \in DOMAIN dw.tiles :
                     /\ dw'.tiles[i].tile_in = dw.tiles[i].tile_in
                     /\ dw'.tiles[i].on_border = dw.tiles[i].on_border
               /\ Placement(dw') # Placement(dw) => ResetStep
      ]_vars

\* a resize to the whole image is pending and a reset to 2 has come since:
\* the far triangle is still OUT with change_num -1, although all its
\* device points are in the new area
C23_DeferredResizeWitness ==
    /\ pc = "running"
    /\ dw.pending_dimensions = <<4, 4>>
    /\ AfterReset
    /\ dw.denom = 2
    /\ \E i \in DOMAIN dw.tiles :
          /\ dw.tiles[i].tile_in = "OUT"
          /\ dw.tiles[i].change_num = -1
          /\ set_tile_in(dw.tiles[i], 4, 4).tile_in = "IN"

-----------------------------------------------------------------------------
(* Properties of the insertion frame (Spec) *)

\* C25: a turn of the loop of add_all_tiles, whether the tile is added or an
\* exception ends the run, leaves every tile of the store in the store with
\* its vertices, chirality and color, adds at most the tile of the row, and
\* leaves the lists MOVES and EDGES as the module defines them, with 13
\* entries each
C25_InsertionFrame ==
    [][RowStep =>
         /\ \A id \in DOMAIN tiles :
               /\ id \in DOMAIN tiles'
               /\ tiles'[id].user_points = tiles[id].user_points
               /\ tiles'[id].chirality = tiles[id].chirality
               /\ tiles'[id].color = tiles[id].color
         /\ SubSeq(order', 1, Len(order)) = order
         /\ tables' = SharedTables
         /\ \A c \in {"L", "R"} :
               Len(tables'.MOVES[c]) = 13 /\ Len(tables'.EDGES[c]) = 13
    ]_vars

\* a second tile was traced from a start edge that is not the first of the
\* list and added on an edge of the first tile
C25_InsertionFrameWitness ==
    /\ pc = "rows"
    /\ tr.call = "set_user_points"
    /\ Len(order) = 2
    /\ tr.tile.tile_id = order[2]
    /\ tr.tile.match_edge # <<>>
    /\ tr.tile.match_id = order[1]
    /\ index(EDGES[tr.tile.chirality], tr.tile.start_edge) > 0
    /\ tables = SharedTables

-----------------------------------------------------------------------------
(* Properties of get_angle (SpecAngle) *)

\* the sign of e[1] + e[2] * sqrt(3)
RingSign(e) ==
    IF e[1] >= 0 /\ e[2] >= 0 THEN (IF e = <<0, 0>> THEN 0 ELSE 1)
    ELSE IF e[1] <= 0 /\ e[2] <= 0 THEN -1
    ELSE IF e[1] > 0 THEN (IF e[1] * e[1] > 3 * e[2] * e[2] THEN 1 ELSE -1)
    ELSE (IF 3 * e[2] * e[2] > e[1] * e[1] THEN 1 ELSE -1)

\* (cos a, sin a) is the unit vector along d: twice the vector a.dir turned
\* by a.turn * 30 degrees is parallel to d and points the same way
SameDirection(a, d) ==
    LET c  == Cos2(a.turn)
        sn == Sin2(a.turn)
        rx == Minus(Times(a.dir[1], c), Times(a.dir[2], sn))
        ry == Minus(Times(a.dir[1], sn), Times(-a.dir[2], c))
        cross == Minus(Times(d[2], rx), Times(d[1], ry))
        dot   == Minus(Times(d[1], rx), Times(-d[2], ry))
    IN cross = <<0, 0>> /\ RingSign(dot) = 1

\* -pi/2 <= a < 3*pi/2, for the angle of a.dir (strictly between -pi/2 and
\* pi/2) plus a.turn * pi/6
InRange(a) ==
    LET x == a.dir[1]
        y == a.dir[2]
    IN /\ x > 0
       /\ \/ a.turn \in 0..6
          \/ a.turn = -3 /\ y >= 0
          \/ a.turn = -2 /\ (y >= 0 \/ 3 * y * y <= x * x)
          \/ a.turn = -1 /\ (y >= 0 \/ y * y <= 3 * x * x)
          \/ a.turn = 7 /\ (y <= 0 \/ y * y < 3 * x * x)
          \/ a.turn = 8 /\ (y <= 0 \/ 3 * y * y < x * x)
          \/ a.turn = 9 /\ y < 0

\* C26 as stated: for any two points that get_angle does not reject, the
\* angle is in [-pi/2, 3*pi/2) and its cosine and sine are the unit
\* direction from start to end
C26_FacingAngleAny ==
    (tr.call = "get_angle" /\ tr.out.raised = "none") =>
        /\ InRange(tr.out)
        /\ SameDirection(tr.out, Minus(tr.end, tr.start))

\* C26: for two points that get_angle does not reject and whose x
\* coordinates are equal or differ by .000001 or more, the angle is in
\* [-pi/2, 3*pi/2) and its cosine and sine are the unit direction from start
\* to end; for a smaller difference of the x coordinates the angle is pi/2
\* or -pi/2 by the sign of the difference of the y coordinates
C26_FacingAngle ==
    (tr.call = "get_angle" /\ tr.out.raised = "none") =>
        LET d == Minus(tr.end, tr.start)
        IN /\ InRange(tr.out)
           /\ (d[1] = 0 \/ Abs(d[1]) >= VERTICAL_EPS * SubSteps)
                 => SameDirection(tr.out, d)
           /\ Abs(d[1]) < VERTICAL_EPS * SubSteps
                 => SameDirection(tr.out, <<0, d[2]>>)

\* a segment into the third quadrant, for which math.pi is added
C26_FacingAngleWitness ==
    /\ tr.call = "get_angle"
    /\ tr.out.raised = "none"
    /\ tr.end[1] < tr.start[1] - VERTICAL_EPS * SubSteps
    /\ tr.end[2] < tr.start[2]
    /\ tr.out.turn = 6
    /\ SameDirection(tr.out, Minus(tr.end, tr.start))

-----------------------------------------------------------------------------
(* Properties of the two placement rules (SpecHat) *)

\* C27: when set_user_points of hat.py accepts a row with a match_edge, the
\* point and the angle it starts from are those that the comparison of the
\* chiralities alone (set_user_points of hat2.py) gives for the same tile
\* store, chirality, match_id and match_edge
C27_RuleEquivalence ==
    [][RowStep =>
          LET t == tr'.tile
          IN (tr'.call = "set_user_points" /\ t.match_edge # <<>>) =>
                LET rule   == Hat2_StartOf(tiles, t.chirality, t.match_id, t.match_edge)
                    legacy == Hat_StartOf(tiles, t.chirality, t.match_id,
                                          t.match_edge, t.match_rev)
                IN /\ rule.raised = "none"
                   /\ legacy = rule
                   /\ tr'.curr_pt = rule.curr_pt
                   /\ tr'.curr_angle = Heading(rule.curr_angle)]_vars

\* a tile of the other chirality was placed with match_rev N on a tile of
\* the store, from the start point of the matched edge
C27_RuleEquivalenceWitness ==
    /\ tr.call = "set_user_points"
    /\ tr.tile.match_edge # <<>>
    /\ ~tr.tile.match_rev
    /\ Len(order) = 2
    /\ tr.tile.tile_id = order[2]
    /\ tr.tile.chirality # tiles[tr.tile.match_id].chirality
    /\ tr.curr_pt = Hat2_StartOf(tiles, tr.tile.chirality, tr.tile.match_id,
                                 tr.tile.match_edge).curr_pt

-----------------------------------------------------------------------------
(* Properties of the order of the errors (Spec) *)

\* the row names an edge of length zero of a tile of the store
MatchedEdgeDegenerate(t) ==
    /\ t.match_edge # <<>>
    /\ t.match_id \in DOMAIN tiles
    /\ EdgeLength(tiles[t.match_id].chirality,
                  index(EDGES[tiles[t.match_id].chirality], t.match_edge)) = <<0, 0>>

-----------------------------------------------------------------------------
(* Properties of the written store (SpecRewrite) *)

\* no crop value is set
NoCrop == left_x = None /\ bottom_y = None /\ right_x = None /\ top_y = None

\* C29: without crop values, after write_points_to_file the least x and the
\* least y over all vertices are 0, the greatest x is img_width and the
\* greatest y is img_height (right - left and bottom - top of the bounds
\* before the call, and the values written in every row), so every vertex is
\* in [0, img_width] x [0, img_height]; a second write_points_to_file leaves
\* every vertex and both dimensions of every row as they were
C29_TightIdempotent ==
    [][(tr'.call = "write_points_to_file" /\ pc' = "written" /\ NoCrop) =>
          LET img_width  == Tight(tiles, "R") - Tight(tiles, "L")
              img_height == Tight(tiles, "B") - Tight(tiles, "T")
          IN /\ Tight(tiles', "L") = 0
             /\ Tight(tiles', "T") = 0
             /\ Tight(tiles', "R") = img_width
             /\ Tight(tiles', "B") = img_height
             /\ \A p \in AllPoints(tiles') :
                   /\ 0 <= p[1] /\ p[1] <= img_width
                   /\ 0 <= p[2] /\ p[2] <= img_height
             /\ \A k \in 2..Len(file') :
                   /\ Fields(file'[k])[7] = <<Format6(img_width, unit)>>
                   /\ Fields(file'[k])[8] = <<Format6(img_height, unit)>>
             /\ pc = "written" =>
                   /\ tiles' = tiles
                   /\ Len(file') = Len(file)
                   /\ \A k \in 2..Len(file') :
                         /\ Fields(file'[k])[7] = Fields(file[k])[7]
                         /\ Fields(file'[k])[8] = Fields(file[k])[8]]_vars

\* an aligned store of two tiles, without crop values, written twice
C29_TightIdempotentWitness ==
    /\ pc = "written"
    /\ tr.call = "write_points_to_file"
    /\ "again" \in DOMAIN tr
    /\ NoCrop
    /\ Len(order) = 2
    /\ unit > 1
    /\ Tight(tiles, "R") > 0
    /\ Tight(tiles, "B") > 0
    /\ Len(file) = 3

-----------------------------------------------------------------------------
(* Properties of the progress (SpecProgress) *)

\* the tiles that Tile.draw draws in the done colors
Done(d) == { i \in DOMAIN d.tiles : draw(d.tiles[i], d.num) = "done" }

\* the tiles last drawn in the done colors
DrawnDone(scr) == { i \in DOMAIN scr.drawn : scr.drawn[i] = "done" }

\* C30: a numerator message that does not raise the numerator changes the
\* change_num of no tile and takes no tile out of the set of the tiles with
\* change_num >= num; a resize event that is not completed leaves this set
\* as it is; and on_draw draws exactly the tiles of this set in the done
\* colors.  So between two reset messages, and without a completed resize,
\* a tile drawn done is drawn done again as long as the numerator does not
\* go up
C30_MonotoneProgress ==
    [][pc = "running" =>
         /\ \A num \in 0..MaxDenom :
               (OnFifoNumerator(num) /\ num <= dw.num) =>
                  /\ \A i \in DOMAIN dw.tiles :
                        dw'.tiles[i].change_num = dw.tiles[i].change_num
                  /\ Done(dw) \subseteq Done(dw')
                  /\ Done(dw') = { i \in DOMAIN dw.tiles :
                                      dw.tiles[i].change_num >= num }
         /\ \A size \in WindowSizes :
               OnResize(size[1], size[2]) => Done(dw') = Done(dw)
         /\ OnDraw =>
               /\ DrawnDone(screen') =
                     { i \in DOMAIN dw.tiles : dw.tiles[i].change_num >= dw.num }
               /\ \A i \in DOMAIN dw.tiles :
                     screen'.drawn[i] \in {"start", "done"}]_vars

\* after a reset with denominator 2 and the numerator message 1 the area is
\* drawn: a tile with change_num 1 is drawn done, one with change_num 0
\* is not
C30_MonotoneProgressWitness ==
    /\ pc = "running"
    /\ tr.call = "on_fifo_data"
    /\ ~tr.reset
    /\ ~screen.queued
    /\ dw.num = tr.digits[1]
    /\ dw.num < dw.denom
    /\ \E i \in DOMAIN dw.tiles :
          /\ screen.drawn[i] = "done"
          /\ dw.tiles[i].change_num < dw.denom
    /\ \E j \in DOMAIN dw.tiles : screen.drawn[j] = "start"

-----------------------------------------------------------------------------
(* Properties of the tracing loop (SpecTrace) *)

\* each of the 13 moves is rounded to 6 decimals, by at most half a 1e-6
\* step per coordinate: what 13 roundings can add up to, in whole steps
TRACE_TOL == Len(LEFT_HAT_MOVES) \div 2

RingAdd(x, y) == <<x[1] + y[1], x[2] + y[2]>>

RECURSIVE ClassSum(_, _, _, _)
\* twice the sum of the unrounded displacements of the moves of move_list
\* from heading k on, in units of w[class] each: <<x, y>>, both in the ring
ClassSum(move_list, i, k, w) ==
    IF i > Len(move_list) THEN << <<0, 0>>, <<0, 0>> >>
    ELSE LET m    == move_list[i]
             rest == ClassSum(move_list, i + 1,
                         k + (IF m.turn = "L" THEN -1 ELSE 1) * (m.angle \div 30), w)
             c    == Cos2(k)
             sn   == Sin2(k)
         IN << RingAdd(<<w[m.d] * c[1], w[m.d] * c[2]>>, rest[1]),
               RingAdd(<<w[m.d] * sn[1], w[m.d] * sn[2]>>, rest[2]) >>

\* the half and full sides count 1 and 2, the heights 0; and the other way round
SIDE_WEIGHTS == [HS |-> 1, FS |-> 2, HH |-> 0]

HEIGHT_WEIGHTS == [HS |-> 0, FS |-> 0, HH |-> 1]

TracedMoves == MoveList(tr.chirality, index(EDGES[tr.chirality], tr.start_edge))

\* C2 as stated: the trace of the 13 moves ends exactly on the anchor, with
\* the heading it started with (modulo a full turn)
C2_ClosureExact ==
    tr.call = "trace" =>
        /\ tr.out.last_pt = tr.curr_pt
        /\ (tr.out.last_angle - tr.curr_angle) % 12 = 0

\* C2 amended: for each chirality, start edge, anchor, start angle and pair
\* of lengths, the unrounded side displacements and the unrounded height
\* displacements of the 13 moves each sum to zero and the heading returns to
\* the start angle modulo a full turn; the last traced point is the anchor
\* up to the 6-decimal rounding of the 13 moves
C2_Closure ==
    tr.call = "trace" =>
        /\ Near(tr.out.last_pt, tr.curr_pt, TRACE_TOL)
        /\ (tr.out.last_angle - tr.curr_angle) % 12 = 0
        /\ ClassSum(TracedMoves, 1, tr.curr_angle, SIDE_WEIGHTS)
               = << <<0, 0>>, <<0, 0>> >>
        /\ ClassSum(TracedMoves, 1, tr.curr_angle, HEIGHT_WEIGHTS)
               = << <<0, 0>>, <<0, 0>> >>

\* a trace whose last point is off the anchor by rounding
C2_ClosureWitness ==
    /\ tr.call = "trace"
    /\ tr.out.last_pt # tr.curr_pt
    /\ Near(tr.out.last_pt, tr.curr_pt, TRACE_TOL)
    /\ tile_param1 # <<0, 0>> /\ tile_param2 # <<0, 0>>

MulSqrt3(b) ==
    LET a  == Abs(b)
        b1 == a \div 10000
        b0 == a % 10000
        t0 == b1 * 10000 + b1 * 7320 + b0
        t1 == b1 * 5080 + b0 * 7320
        t2 == b1 * 7568 + b0 * 5080
        r  == t0 + (t1 + t2 \div 10000 + 5000) \div 10000
    IN IF b < 0 THEN -r ELSE r

\* twice (r - the reflection of l across the line through anchor a along
\* heading k), per coordinate, as <<m, n>> = m + n*sqrt(3):
\* the reflection of a + v is a + (x*cos(2k) + y*sin(2k), x*sin(2k) - y*cos(2k))
MirrorDev(a, k, l, r) ==
    LET x  == l[1] - a[1]
        y  == l[2] - a[2]
        c  == Cos2(2 * k)
        sn == Sin2(2 * k)
    IN << <<2 * (r[1] - a[1]) - c[1] * x - sn[1] * y, -(c[2] * x + sn[2] * y)>>,
          <<2 * (r[2] - a[2]) - sn[1] * x + c[1] * y, -(sn[2] * x - c[2] * y)>> >>

\* |m + n*sqrt(3)| / 2 <= tol, up to the rounding of MulSqrt3
RingNear(e, tol) == Abs(e[1] + MulSqrt3(e[2])) <= 2 * tol + 1

\* the rounding of the L vertex, which the reflection spreads over both
\* coordinates, and the rounding of the R vertex: 2e-5 in 1e-6 steps
MIRROR_TOL == 3 * TRACE_TOL + 2

\* C4 as stated: vertex k of the R trace is exactly the reflection across
\* the initial facing line of vertex k of the L trace (same lengths, anchor,
\* start angle and start index), for every k
C4_MirrorExact ==
    tr.call = "mirror" =>
        \A i \in 1..13 :
            MirrorDev(tr.curr_pt, tr.curr_angle, tr.out.L[i], tr.out.R[i])
                = << <<0, 0>>, <<0, 0>> >>

\* C4 amended: vertex k of the R trace is the reflection across the initial
\* facing line of vertex k of the L trace up to the 6-decimal rounding of
\* the moves of both traces (within 2e-5 per coordinate), and exactly so
\* when the facing line is parallel to a coordinate axis
C4_Mirror ==
    tr.call = "mirror" =>
        \A i \in 1..13 :
            LET e == MirrorDev(tr.curr_pt, tr.curr_angle, tr.out.L[i], tr.out.R[i])
            IN /\ RingNear(e[1], MIRROR_TOL)
               /\ RingNear(e[2], MIRROR_TOL)
               /\ tr.curr_angle % 3 = 0 => e = << <<0, 0>>, <<0, 0>> >>

\* mirrored traces of a tile with both lengths non-zero along a line that is
\* not parallel to an axis, where the reflection is off the grid
C4_MirrorWitness ==
    /\ tr.call = "mirror"
    /\ tr.curr_angle = 1
    /\ tile_param1 # <<0, 0>> /\ tile_param2 # <<0, 0>>
    /\ tr.out.L # tr.out.R
    /\ \E i \in 1..13 :
           MirrorDev(tr.curr_pt, tr.curr_angle, tr.out.L[i], tr.out.R[i])
               # << <<0, 0>>, <<0, 0>> >>

====
